---------------------------- MODULE Spec2Model ----------------------------
(***************************************************************************)
(* rlox: the tree-walking Lox interpreter.                                 *)
(*                                                                         *)
(* The model follows the pipeline of the repository:                       *)
(*   Parser (src/src/lang/tree/parser.rs) builds the statement list and    *)
(*     desugars `for`, function statements and `continue`;                 *)
(*   Resolver (src/src/lang/tree/resolver.rs) annotates identifier         *)
(*     occurrences with (depth, slot);                                     *)
(*   Lox (src/src/interpreter/mod.rs, lox/internal.rs, lox/visitor.rs)     *)
(*     walks the tree against the frame chain of runtime/scope.rs.         *)
(*                                                                         *)
(* A program is a syntax tree, written with the constructors below.  The   *)
(* three passes are recursive in the code; here the recursion is unfolded: *)
(* each pass keeps the calls that are in progress (the Rust call stack)    *)
(* in a variable, and one step of the state machine is one call or one     *)
(* return of a parsing function or of a visit method.                      *)
(***************************************************************************)
EXTENDS Integers, Sequences, FiniteSets, TLC

VARIABLES
    src,        \* descriptor of the source program being run
    phase,      \* position of the driver (main)
    parser,     \* the Parser: pending tasks, nodes built, counters, errors
    ast,        \* Parser.statements as taken by take_statements
    rtodo,      \* the pending tasks of the resolver pass
    binding,    \* Identifier.binding cells: occurrence id -> <<depth, slot>>
    resolved,   \* outcome of the resolver pass: "none", "ok" or "err"
    lox,        \* the interpreter: frames, closures, globals, current scope
    callstack,  \* the evaluator's call stack: the visit methods in progress
    ctl,        \* what the evaluator does next: accept a node, return a result
    pc,         \* index of the next top-level statement of Lox::interpret
    result,     \* what the last evaluated top-level statement returned
    rscopes,    \* the Resolver: its scope stack, the cells written, Err
    rlast,      \* the last Resolver::declare call made on rscopes alone
    encvec,     \* a SizeEncodedVec: the bytes written and the tail index
    elast       \* the last SizeEncodedVec call made on encvec and its outcome

vars == <<src, phase, parser, ast, rtodo, binding, resolved, lox, callstack, ctl,
          pc, result, rscopes, rlast, encvec, elast>>

-----------------------------------------------------------------------------
(* Runtime values: LoxObject.  v is the number, 0/1 for a boolean, or the  *)
(* index of the closure in lox.fns (an Rc pointer).                        *)

Nil == [k |-> "nil", v |-> 0]
Num(n) == [k |-> "num", v |-> n]
Bool(b) == [k |-> "bool", v |-> IF b THEN 1 ELSE 0]
FnVal(i) == [k |-> "fn", v |-> i]
NativeVal(i) == [k |-> "native", v |-> i]
\* a class / an instance: the index in lox.classes / lox.insts (an Rc pointer)
ClassVal(i) == [k |-> "class", v |-> i]
InstVal(i) == [k |-> "inst", v |-> i]
\* a string: the sequence of its characters
Str(chars) == [k |-> "str", v |-> chars]
\* f64 results of a division that are not integers: a quotient with a
\* remainder, +inf (1), -inf (-1) and NaN (0)
Frac(q, r, d) == [k |-> "num", v |-> q, rem |-> <<r, d>>]
NonFinite(sign) == [k |-> "num", v |-> sign, nf |-> TRUE]

(* Evaluation results: Result<Eval, RuntimeError>, or a Rust panic.        *)
Obj(val) == [c |-> "obj", val |-> val]
CtrlBreak == [c |-> "break", val |-> Nil]
CtrlContinue == [c |-> "continue", val |-> Nil]
CtrlReturn(val) == [c |-> "return", val |-> val]
ErrType == [c |-> "err", val |-> [k |-> "TypeError", v |-> 0]]
ErrReference == [c |-> "err", val |-> [k |-> "ReferenceError", v |-> 0]]
\* BinaryError, and the TypeError binary_op_error makes of it: the message
\* names the side whose type is wrong, or says that the two cannot be added
LeftSide == 1
RightSide == 2
InvalidTypes == 3
binary_op_error(err_type) == [c |-> "err", val |-> [k |-> "TypeError", v |-> err_type]]
Panic == [c |-> "panic", val |-> Nil]

Failed(r) == r.c \in {"err", "panic"}

-----------------------------------------------------------------------------
(* Syntax trees.  An identifier occurrence carries the id of its binding   *)
(* cell.  The S-constructors build what the source text says; the parser   *)
(* below turns it into the Stmt/Expr tree the parser produces.             *)

None == [t |-> "none"]
Ident(id, name) == [id |-> id, name |-> name]
Named(id, name) == [t |-> "ident", ident |-> Ident(id, name)]

BlockS(stmts) == [t |-> "block", stmts |-> stmts]

Lit(val) == [t |-> "lit", val |-> val]
Var(id, name) == [t |-> "var", ident |-> Ident(id, name)]
Assign(id, name, e) == [t |-> "assign", ident |-> Ident(id, name), value |-> e]
Bin(op, l, r) == [t |-> "bin", op |-> op, left |-> l, right |-> r]
Logical(op, l, r) == [t |-> "logical", op |-> op, left |-> l, right |-> r]
Unary(prefix, value) == [t |-> "unary", prefix |-> prefix, value |-> value]
Call(callee, args) == [t |-> "call", callee |-> callee, args |-> args]
Fn(name, params, stmts) ==
    [name |-> name, params |-> params, body |-> BlockS(stmts), is_static |-> FALSE]
StaticFn(name, params, stmts) == [Fn(name, params, stmts) EXCEPT !.is_static = TRUE]
FunE(fn) == [t |-> "fun", fn |-> fn]
Get(object, property) == [t |-> "get", object |-> object, property |-> property]
Set(object, property, value) ==
    [t |-> "set", object |-> object, property |-> property, value |-> value]
This(id) == [t |-> "this", ident |-> Ident(id, "this")]

ExprS(e) == [t |-> "expr", expr |-> e]
PrintS(e) == [t |-> "print", expr |-> e]
VarS(id, name, init) == [t |-> "vardecl", ident |-> Ident(id, name), init |-> init]
IfS(c, th, el) == [t |-> "if", cond |-> c, then |-> th, else |-> el]
WhileS(c, body) == [t |-> "while", cond |-> c, body |-> body]
ForS(init, c, inc, body) == [t |-> "for", init |-> init, cond |-> c, inc |-> inc, body |-> body]
BreakS == [t |-> "break"]
ContinueS == [t |-> "continue"]
ReturnS(e) == [t |-> "return", value |-> e]
ClassS(id, name, super, methods) ==
    [t |-> "class", ident |-> Ident(id, name), super |-> super, methods |-> methods]

-----------------------------------------------------------------------------
(* Parser (parser.rs).  The recursive descent is kept as an explicit list  *)
(* of tasks: the parsing functions that have been entered and the parts    *)
(* they still have to parse, innermost first.  A parser value p holds      *)
(*   todo     : the pending tasks;                                         *)
(*   built    : the nodes parsed so far and not yet taken by their parent  *)
(*              (at the end: Parser.statements);                           *)
(*   loop_cnt, fn_cnt : the nesting counters that validate break, continue *)
(*              and return;                                                *)
(*   errors   : Parser.errors.len().                                       *)
(* An error ends the parse: main only asks had_errors.                     *)

Task(k, node) == [k |-> k, node |-> node]
Declaration(node) == Task("declaration", node)
Expression(node) == Task("expression", node)
Finish(node) == Task("finish", node)
Each(k, nodes) == [i \in 1..Len(nodes) |-> Task(k, nodes[i])]

\* Parser::new: nothing parsed, both counters 0
Parser_new(source) ==
    [todo |-> Each("declaration", source), built |-> <<>>,
     loop_cnt |-> 0, fn_cnt |-> 0, errors |-> 0]

is_in_loop(p) == p.loop_cnt > 0
is_in_fn(p) == p.fn_cnt > 0
enter_loop(p) == [p EXCEPT !.loop_cnt = @ + 1]
enter_fn(p) == [p EXCEPT !.fn_cnt = @ + 1]
exit_loop(p) == [p EXCEPT !.loop_cnt = @ - 1]
exit_fn(p) == [p EXCEPT !.fn_cnt = @ - 1]

\* The parts a parsing function goes on to parse
Issue(p, tasks) == [p EXCEPT !.todo = tasks \o @]
\* Ok(node)
Yield(p, node) == [p EXCEPT !.built = Append(@, node)]
\* Err(..): parse pushes the error
Reject(p) == [p EXCEPT !.todo = <<>>, !.errors = @ + 1]

\* desugar_function_statement: a named function in statement position is a
\* var declaration of that name; an anonymous one an expression statement.
desugar_function_statement(value) ==
    IF value.fn.name.t = "ident"
    THEN [t |-> "vardecl", ident |-> value.fn.name.ident, init |-> value]
    ELSE ExprS(value)

\* desugar_for_statement: { init; while (cond) { body; increment } }
desugar_for_statement(init, cond, inc, body) ==
    BlockS((IF init.t = "none" THEN <<>> ELSE <<init>>)
           \o <<WhileS(IF cond.t = "none" THEN Lit(Bool(TRUE)) ELSE cond,
                       BlockS(<<body>> \o (IF inc.t = "none" THEN <<>>
                                           ELSE <<ExprS(inc)>>)))>>)

\* declaration / statement: the parsing function for the statement s.  An
\* absent optional part parses to None.
Parser_statement(p, s) ==
    CASE s.t = "none" -> Yield(p, None)
      [] s.t \in {"expr", "print"} ->
            Issue(p, <<Expression(s.expr), Finish(s)>>)
      [] s.t = "vardecl" ->
            Issue(p, <<Expression(s.init), Finish(s)>>)
      [] s.t = "block" ->
            Issue(p, Each("declaration", s.stmts) \o <<Finish(s)>>)
      [] s.t = "if" ->
            Issue(p, <<Expression(s.cond), Declaration(s.then),
                       Declaration(s.else), Finish(s)>>)
      [] s.t = "while" ->
            \* enter_loop comes before the condition is parsed
            Issue(enter_loop(p), <<Expression(s.cond), Declaration(s.body),
                                   Finish(s)>>)
      [] s.t = "for" ->
            Issue(enter_loop(p), <<Declaration(s.init), Expression(s.cond),
                                   Expression(s.inc), Declaration(s.body),
                                   Finish(s)>>)
      [] s.t = "break" ->
            IF is_in_loop(p) THEN Yield(p, BreakS) ELSE Reject(p)
      [] s.t = "continue" ->
            \* continue_statement builds Stmt::Break (parser.rs:335)
            IF is_in_loop(p) THEN Yield(p, BreakS) ELSE Reject(p)
      [] s.t = "return" ->
            IF ~is_in_fn(p) THEN Reject(p)
            ELSE Issue(p, <<Expression(s.value), Finish(s)>>)
      [] s.t = "class" ->
            \* class_declaration: the superclass is read as a variable; every
            \* method is parsed by function, and must have a name
            IF \E i \in 1..Len(s.methods) : s.methods[i].name.t = "none"
            THEN Reject(p)
            ELSE Issue(p, [i \in 1..Len(s.methods) |-> Expression(FunE(s.methods[i]))]
                          \o <<Finish(s)>>)

\* expression; for a function: enter_fn, then the body parsed as a block
\* (loop_cnt is left as the enclosing loops set it)
Parser_expression(p, e) ==
    CASE e.t = "none" -> Yield(p, None)
      [] e.t \in {"lit", "var", "this"} -> Yield(p, e)
      [] e.t = "get" -> Issue(p, <<Expression(e.object), Finish(e)>>)
      [] e.t = "set" ->
            Issue(p, <<Expression(e.object), Expression(e.value), Finish(e)>>)
      [] e.t = "assign" -> Issue(p, <<Expression(e.value), Finish(e)>>)
      [] e.t \in {"bin", "logical"} ->
            Issue(p, <<Expression(e.left), Expression(e.right), Finish(e)>>)
      [] e.t = "unary" -> Issue(p, <<Expression(e.value), Finish(e)>>)
      [] e.t = "call" ->
            Issue(p, <<Expression(e.callee)>> \o Each("expression", e.args)
                     \o <<Finish(e)>>)
      [] e.t = "fun" ->
            Issue(enter_fn(p), Each("declaration", e.fn.body.stmts)
                               \o <<Finish(e)>>)

\* Number of parts the parsing function of the node has parsed
Parts(node) ==
    CASE node.t = "block" -> Len(node.stmts)
      [] node.t = "if" -> 3
      [] node.t = "while" -> 2
      [] node.t = "for" -> 4
      [] node.t \in {"bin", "logical", "set"} -> 2
      [] node.t = "class" -> Len(node.methods)
      [] node.t = "call" -> 1 + Len(node.args)
      [] node.t = "fun" -> Len(node.fn.body.stmts)
      [] OTHER -> 1

\* The node a parsing function returns, made of the parts it parsed
Parser_node(node, parts) ==
    CASE node.t = "expr" ->
            IF parts[1].t = "fun" THEN desugar_function_statement(parts[1])
            ELSE ExprS(parts[1])
      [] node.t = "print" -> PrintS(parts[1])
      [] node.t = "vardecl" -> [node EXCEPT !.init = parts[1]]
      [] node.t = "block" -> BlockS(parts)
      [] node.t = "if" -> IfS(parts[1], parts[2], parts[3])
      [] node.t = "while" -> WhileS(parts[1], parts[2])
      [] node.t = "for" ->
            desugar_for_statement(parts[1], parts[2], parts[3], parts[4])
      [] node.t = "return" -> ReturnS(parts[1])
      [] node.t = "assign" -> [node EXCEPT !.value = parts[1]]
      [] node.t \in {"bin", "logical"} ->
            [node EXCEPT !.left = parts[1], !.right = parts[2]]
      [] node.t = "unary" -> [node EXCEPT !.value = parts[1]]
      [] node.t = "call" -> [node EXCEPT !.callee = parts[1], !.args = Tail(parts)]
      [] node.t = "fun" -> FunE([node.fn EXCEPT !.body = BlockS(parts)])
      [] node.t = "get" -> [node EXCEPT !.object = parts[1]]
      [] node.t = "set" -> [node EXCEPT !.object = parts[1], !.value = parts[2]]
      [] node.t = "class" ->
            [node EXCEPT !.methods = [i \in 1..Len(parts) |-> parts[i].fn]]

\* The end of a parsing function: exit_loop / exit_fn, and the node
Parser_finish(p, node) ==
    LET n == Len(p.built) - Parts(node)
        taken == [p EXCEPT !.built = SubSeq(@, 1, n)]
        made == Parser_node(node, SubSeq(p.built, n + 1, Len(p.built)))
    IN  CASE node.t \in {"while", "for"} -> Yield(exit_loop(taken), made)
          [] node.t = "fun" -> Yield(exit_fn(taken), made)
          [] OTHER -> Yield(taken, made)

\* One step of the parser: the first pending task
Parser_step(p) ==
    LET task == Head(p.todo)
        rest == [p EXCEPT !.todo = Tail(@)]
    IN  CASE task.k = "declaration" -> Parser_statement(rest, task.node)
          [] task.k = "expression" -> Parser_expression(rest, task.node)
          [] task.k = "finish" -> Parser_finish(rest, task.node)

had_errors(p) == p.errors > 0
take_statements(p) == p.built

-----------------------------------------------------------------------------
(* Resolver (resolver.rs).  A resolver value rs holds                      *)
(*   scopes : the stack Vec<HashMap<String, (usize, bool)>>, innermost     *)
(*            last; an entry also remembers the declaring identifier;      *)
(*   cells  : the binding cells written so far, id -> (depth, slot) plus   *)
(*            the declaration the occurrence was matched with;             *)
(*   err    : TRUE once a visit returned Err (every `?` then returns).     *)

EmptyMap == <<>>
Put(map, key, val) == (key :> val) @@ map

Resolver_new == [scopes |-> <<>>, cells |-> EmptyMap, err |-> FALSE]

begin_scope(rs) == [rs EXCEPT !.scopes = Append(@, EmptyMap)]

end_scope(rs) ==
    IF Len(rs.scopes) = 0 THEN rs
    ELSE [rs EXCEPT !.scopes = SubSeq(@, 1, Len(@) - 1)]

\* declare with the duplicate check made against every open scope
Resolver_declare_any_scope(rs, name) ==
    IF Len(rs.scopes) = 0 THEN rs
    ELSE LET scope == rs.scopes[Len(rs.scopes)]
         IN  IF \E i \in 1..Len(rs.scopes) : name.name \in DOMAIN rs.scopes[i]
             THEN [rs EXCEPT !.err = TRUE]
             ELSE [rs EXCEPT !.scopes[Len(rs.scopes)] =
                      Put(scope, name.name,
                          [slot |-> Cardinality(DOMAIN scope),
                           defined |-> FALSE, decl |-> name.id])]

\* declare: Err when the innermost scope already holds the name; otherwise
\* the next slot, marked not yet defined.  Without any scope: Ok, no effect.
Resolver_declare(rs, name) ==
    IF Len(rs.scopes) = 0 THEN rs
    ELSE LET scope == rs.scopes[Len(rs.scopes)]
         IN  IF name.name \in DOMAIN scope
             THEN [rs EXCEPT !.err = TRUE]
             ELSE [rs EXCEPT !.scopes[Len(rs.scopes)] =
                      Put(scope, name.name,
                          [slot |-> Cardinality(DOMAIN scope),
                           defined |-> FALSE, decl |-> name.id])]

\* define: marks the entry initialised and writes (scopes.len(), slot) into
\* the declaring identifier.
Resolver_define(rs, name) ==
    IF Len(rs.scopes) = 0 THEN rs
    ELSE LET scope == rs.scopes[Len(rs.scopes)]
         IN  IF name.name \notin DOMAIN scope THEN rs
             ELSE [rs EXCEPT
                     !.cells = Put(@, name.id,
                                   [depth |-> Len(rs.scopes),
                                    slot |-> scope[name.name].slot,
                                    decl |-> scope[name.name].decl]),
                     !.scopes[Len(rs.scopes)][name.name].defined = TRUE]

put_str(rs, name) ==
    IF Len(rs.scopes) = 0 THEN rs
    ELSE LET scope == rs.scopes[Len(rs.scopes)]
         IN  [rs EXCEPT !.scopes[Len(rs.scopes)] =
                 Put(scope, name, [slot |-> Cardinality(DOMAIN scope),
                                   defined |-> TRUE, decl |-> 0])]
\* resolve_local: the innermost scope holding the name, with the number of
\* scopes crossed to reach it.
resolve_local(rs, name) ==
    LET hits == {d \in 0..(Len(rs.scopes) - 1) :
                    name \in DOMAIN rs.scopes[Len(rs.scopes) - d]}
        depth == CHOOSE d \in hits : \A e \in hits : d <= e
    IN  IF hits = {} THEN None
        ELSE [t |-> "some", depth |-> depth,
              info |-> rs.scopes[Len(rs.scopes) - depth][name]]

\* swap_depth / swap_slot on the occurrence's cell
write_binding(rs, name, found) ==
    [rs EXCEPT !.cells = Put(@, name.id, [depth |-> found.depth,
                                          slot |-> found.info.slot,
                                          decl |-> found.info.decl])]

(* The visit of the tree is kept as the list of pending tasks: the nodes   *)
(* still to accept and the calls the entered visit methods still have to   *)
(* make afterwards, innermost first.  A visit method returns the resolver  *)
(* after its first part together with the tasks it goes on to do.          *)

Accept(node) == Task("accept", node)
Define(ident) == Task("define", ident)
AssignTarget(ident) == Task("assign_target", ident)
EndScope == Task("end_scope", None)
ThisScope == Task("this_scope", None)
Method(value) == Task("resolve_function", value)
Visited(rs, tasks) == [rs |-> rs, tasks |-> tasks]

\* for param in value.params() { self.declare(param)?; self.define(param); }
RECURSIVE Resolver_params(_, _, _)
Resolver_params(rs, params, i) ==
    IF i > Len(params) THEN rs
    ELSE LET r1 == Resolver_declare(rs, params[i])
         IN  IF r1.err THEN r1
             ELSE Resolver_params(Resolver_define(r1, params[i]), params, i + 1)

resolve_function(rs, value) ==
    Visited(Resolver_params(begin_scope(rs), value.params, 1),
            <<Accept(value.body), EndScope>>)

Resolver_visit_var_statement(rs, ident, init) ==
    LET r1 == Resolver_declare(rs, ident)
    IN  IF r1.err THEN Visited(r1, <<>>)
        ELSE IF init.t = "none" THEN Visited(Resolver_define(r1, ident), <<>>)
        ELSE IF init.t = "fun" /\ init.fn.name.t = "ident"
             THEN Visited(Resolver_define(r1, ident), <<Accept(init)>>)
        ELSE Visited(r1, <<Accept(init), Define(ident)>>)

Resolver_visit_variable(rs, name) ==
    LET found == resolve_local(rs, name.name)
    IN  IF found.t = "none" THEN rs
        ELSE IF found.depth = 0 /\ ~found.info.defined
             THEN [rs EXCEPT !.err = TRUE]
        ELSE write_binding(rs, name, found)

\* visit_assignment: the value first, then the target
Resolver_visit_assignment(rs, name, value) ==
    Visited(rs, <<Accept(value), AssignTarget(name)>>)

\* visit_assignment once the value has been resolved
Resolver_assign_target(rs, name) ==
    LET found == resolve_local(rs, name.name)
    IN  IF found.t = "none" THEN rs ELSE write_binding(rs, name, found)

\* visit_block_statement without a scope of its own
Resolver_visit_block_statement_flat(rs, statements) ==
    Visited(rs, Each("accept", statements))

Resolver_visit_block_statement(rs, statements) ==
    Visited(begin_scope(rs), Each("accept", statements) \o <<EndScope>>)

Resolver_visit_if_statement(rs, condition, then_branch, else_branch) ==
    Visited(rs, <<Accept(condition), Accept(then_branch)>>
                \o (IF else_branch.t = "none" THEN <<>>
                    ELSE <<Accept(else_branch)>>))

Resolver_visit_while_statement(rs, condition, body) ==
    Visited(rs, <<Accept(condition), Accept(body)>>)

Resolver_visit_binary(rs, left, right) ==
    Visited(rs, <<Accept(left), Accept(right)>>)

Resolver_visit_logical(rs, left, right) ==
    Visited(rs, <<Accept(left), Accept(right)>>)

Resolver_visit_unary(rs, expr) == Visited(rs, <<Accept(expr)>>)

Resolver_visit_call(rs, callee, arguments) ==
    Visited(rs, <<Accept(callee)>> \o Each("accept", arguments))

Resolver_visit_return_statment(rs, value) ==
    Visited(rs, IF value.t = "none" THEN <<>> ELSE <<Accept(value)>>)

\* visit_class_statement: the name is declared and defined, the superclass
\* resolved (a class naming itself is an error), then one scope holding
\* `this` around all the methods
Resolver_visit_class_statement(rs, name, super_class, methods) ==
    LET r1 == Resolver_declare(rs, name)
    IN  IF r1.err THEN Visited(r1, <<>>)
        ELSE IF super_class.t = "var" /\ super_class.ident.name = name.name
             THEN Visited([Resolver_define(r1, name) EXCEPT !.err = TRUE], <<>>)
        ELSE Visited(Resolver_define(r1, name),
                     (IF super_class.t = "none" THEN <<>> ELSE <<Accept(super_class)>>)
                     \o <<ThisScope>>
                     \o [i \in 1..Len(methods) |-> Method(methods[i])]
                     \o <<EndScope>>)

Resolver_visit_get(rs, object) == Visited(rs, <<Accept(object)>>)

Resolver_visit_set(rs, object, value) ==
    Visited(rs, <<Accept(object), Accept(value)>>)

\* visit_this: resolved like a local; an error when no scope holds `this`
Resolver_visit_this(rs, ident) ==
    LET found == resolve_local(rs, "this")
    IN  IF found.t = "none" THEN [rs EXCEPT !.err = TRUE]
        ELSE write_binding(rs, ident, found)

\* Expr::accept with the Resolver as visitor
Resolver_expr(rs, e) ==
    CASE e.t = "lit" -> Visited(rs, <<>>)
      [] e.t = "var" -> Visited(Resolver_visit_variable(rs, e.ident), <<>>)
      [] e.t = "assign" -> Resolver_visit_assignment(rs, e.ident, e.value)
      [] e.t = "bin" -> Resolver_visit_binary(rs, e.left, e.right)
      [] e.t = "logical" -> Resolver_visit_logical(rs, e.left, e.right)
      [] e.t = "unary" -> Resolver_visit_unary(rs, e.value)
      [] e.t = "call" -> Resolver_visit_call(rs, e.callee, e.args)
      [] e.t = "fun" -> resolve_function(rs, e.fn)
      [] e.t = "get" -> Resolver_visit_get(rs, e.object)
      [] e.t = "set" -> Resolver_visit_set(rs, e.object, e.value)
      [] e.t = "this" -> Visited(Resolver_visit_this(rs, e.ident), <<>>)

\* Stmt::accept with the Resolver as visitor
Resolver_stmt(rs, s) ==
    CASE s.t \in {"expr", "print"} -> Visited(rs, <<Accept(s.expr)>>)
      [] s.t = "vardecl" -> Resolver_visit_var_statement(rs, s.ident, s.init)
      [] s.t = "block" -> Resolver_visit_block_statement(rs, s.stmts)
      [] s.t = "if" -> Resolver_visit_if_statement(rs, s.cond, s.then, s.else)
      [] s.t = "while" -> Resolver_visit_while_statement(rs, s.cond, s.body)
      [] s.t \in {"break", "continue"} -> Visited(rs, <<>>)
      [] s.t = "return" -> Resolver_visit_return_statment(rs, s.value)
      [] s.t = "class" ->
            Resolver_visit_class_statement(rs, s.ident, s.super, s.methods)

IsExpr(node) ==
    node.t \in {"lit", "var", "assign", "bin", "logical", "unary", "call", "fun",
               "get", "set", "this"}

\* One step of the resolver pass: the first pending task
Resolver_step(rs, tasks) ==
    LET task == Head(tasks)
        done == CASE task.k = "accept" ->
                        IF IsExpr(task.node) THEN Resolver_expr(rs, task.node)
                        ELSE Resolver_stmt(rs, task.node)
                  [] task.k = "define" ->
                        Visited(Resolver_define(rs, task.node), <<>>)
                  [] task.k = "assign_target" ->
                        Visited(Resolver_assign_target(rs, task.node), <<>>)
                  [] task.k = "end_scope" -> Visited(end_scope(rs), <<>>)
                  [] task.k = "this_scope" ->
                        Visited(put_str(begin_scope(rs), "this"), <<>>)
                  [] task.k = "resolve_function" -> resolve_function(rs, task.node)
    IN  Visited(done.rs, done.tasks \o Tail(tasks))

-----------------------------------------------------------------------------
(* Runtime scopes (runtime/scope.rs).  A frame is a Scope behind an        *)
(* Rc<RefCell<..>>: frames are kept in lox.frames and named by their index *)
(* (0 is no parent).  owner remembers, slot by slot, the declaring         *)
(* identifier that made the slot.                                          *)

Scope_new(parent) ==
    [parent |-> parent, slots |-> EmptyMap, values |-> <<>>, owner |-> <<>>]

\* declare: push nil, record name -> index, return the index
Scope_declare(scope, name, id) ==
    [scope EXCEPT !.values = Append(@, Nil),
                  !.slots = Put(@, name, Len(scope.values)),
                  !.owner = Append(@, id)]

\* define: overwrite the slot the name maps to, if any
Scope_define(scope, name, value) ==
    IF name \in DOMAIN scope.slots
    THEN [scope EXCEPT !.values[scope.slots[name] + 1] = value]
    ELSE scope

\* The frame `distance` parent links up from frame f; 0 when a parent is
\* missing (Option::unwrap on None).
RECURSIVE Scope_ancestor(_, _, _)
Scope_ancestor(frames, f, distance) ==
    IF distance = 0 THEN f
    ELSE IF frames[f].parent = 0 THEN 0
    ELSE Scope_ancestor(frames, frames[f].parent, distance - 1)

\* get_at: walks distance parents and indexes values[slot]; a missing
\* parent or an index past the end panics.
Scope_get_at(frames, f, distance, slot) ==
    LET a == Scope_ancestor(frames, f, distance)
    IN  IF a = 0 \/ slot >= Len(frames[a].values)
        THEN [ok |-> FALSE, frame |-> 0, val |-> Nil]
        ELSE [ok |-> TRUE, frame |-> a, val |-> frames[a].values[slot + 1]]

Scope_set_at(frames, f, distance, slot, value) ==
    LET a == Scope_ancestor(frames, f, distance)
    IN  IF a = 0 \/ slot >= Len(frames[a].values)
        THEN [ok |-> FALSE, frame |-> 0, frames |-> frames]
        ELSE [ok |-> TRUE, frame |-> a,
              frames |-> [frames EXCEPT ![a].values[slot + 1] = value]]

-----------------------------------------------------------------------------
(* The interpreter (interpreter/mod.rs, lox/internal.rs, lox/visitor.rs).  *)
(* st is the Lox value: the frames, the closures made, the current scope,  *)
(* the globals, and what has been printed.  calls, callres and misread     *)
(* record what happened: every call made, what every call returned, and    *)
(* the identifiers that reached a slot another declaration made.  classes  *)
(* and insts hold the Class and ClassInstance values made (an Rc pointer   *)
(* is an index); binds records every Function::bind.  The repository holds *)
(* the evaluator twice, interpreter/lox/{visitor,internal}.rs and          *)
(* interpreter/lox.rs: build says which of the two is running.             *)

Builds == {"lox/visitor.rs", "lox.rs"}

\* Lox::new: empty root scope, the native functions bound as globals
Lox_new ==
    [frames |-> <<Scope_new(0)>>,
     fns |-> <<>>,
     classes |-> <<>>,
     insts |-> <<>>,
     binds |-> <<>>,
     build |-> "lox/visitor.rs",
     cur |-> 1,
     globals |-> Put(Put(EmptyMap, "clock", NativeVal(1)), "string", NativeVal(2)),
     out |-> <<>>,
     calls |-> <<>>,
     callres |-> <<>>,
     misread |-> {}]

Res(st, r) == [st |-> st, r |-> r]

\* Identifier::depth_slot: the cell the resolver wrote, if it wrote one
depth_slot(ident) ==
    IF ident.id \in DOMAIN binding
    THEN [t |-> "some", depth |-> binding[ident.id].depth,
          slot |-> binding[ident.id].slot, decl |-> binding[ident.id].decl]
    ELSE None

Lox_declare(st, name, id) ==
    [st EXCEPT !.frames[st.cur] = Scope_declare(@, name, id)]

Lox_define(st, name, value) ==
    [st EXCEPT !.frames[st.cur] = Scope_define(@, name, value)]

set_global(st, name, value) ==
    [st EXCEPT !.globals = Put(@, name, value)]

\* bind: a resolved identifier gets a new slot in the current frame,
\* an unresolved one goes to the global table
Lox_bind(st, ident, value) ==
    IF depth_slot(ident).t = "some"
    THEN Lox_define(Lox_declare(st, ident.name, ident.id), ident.name, value)
    ELSE set_global(st, ident.name, value)

\* The slot reached is not the one the matched declaration made
Misread(st, ident, frame, slot) ==
    IF st.frames[frame].owner[slot + 1] = depth_slot(ident).decl
    THEN st
    ELSE [st EXCEPT !.misread = @ \cup {ident.id}]

\* assign_global creating the global it does not find
assign_global_create(st, name_ident, value) ==
    Res(set_global(st, name_ident.name, value), Obj(value))

assign_global(st, name_ident, value) ==
    IF name_ident.name \notin DOMAIN st.globals
    THEN Res(st, ErrReference)
    ELSE Res(set_global(st, name_ident.name, value), Obj(value))

\* create_scope taking an existing child frame of the current frame again
create_scope_reuse(st) ==
    LET children == {f \in 1..Len(st.frames) : st.frames[f].parent = st.cur}
    IN  IF children # {}
        THEN [st EXCEPT !.cur = CHOOSE f \in children : \A g \in children : f <= g]
        ELSE [st EXCEPT !.frames = Append(@, Scope_new(st.cur)),
                        !.cur = Len(st.frames) + 1]

create_scope(st) ==
    [st EXCEPT !.frames = Append(@, Scope_new(st.cur)),
               !.cur = Len(st.frames) + 1]

shed_scope(st) ==
    IF st.frames[st.cur].parent # 0
    THEN [st EXCEPT !.cur = st.frames[st.cur].parent]
    ELSE st

restore_scope(st, original_scope) ==
    [shed_scope(st) EXCEPT !.cur = original_scope]

\* setup_fn_stack: a nil slot for every parameter, then the arguments
\* zipped onto the parameters
RECURSIVE declare_params(_, _, _)
declare_params(st, params, i) ==
    IF i > Len(params) THEN st
    ELSE declare_params(Lox_declare(st, params[i].name, params[i].id), params, i + 1)

RECURSIVE define_params(_, _, _, _)
define_params(st, params, args, i) ==
    IF i > Len(params) \/ i > Len(args) THEN st
    ELSE define_params(Lox_define(st, params[i].name, args[i]), params, args, i + 1)

\* setup_fn_stack giving a slot only to the parameters that have an argument
setup_fn_stack_zip(st, func, args) ==
    LET n == IF Len(args) < Len(func.params) THEN Len(args) ELSE Len(func.params)
    IN  define_params(declare_params(st, SubSeq(func.params, 1, n), 1),
                      func.params, args, 1)

setup_fn_stack(st, func, args) ==
    define_params(declare_params(st, func.params, 1), func.params, args, 1)

\* setup_function_environment making the new frame a child of the caller's
setup_function_environment_dynamic(st, func, args) ==
    setup_fn_stack(create_scope(st), func, args)

setup_function_environment(st, func, args) ==
    setup_fn_stack(create_scope([st EXCEPT !.cur = func.closure]), func, args)

\* Eval::unwrap_return
unwrap_return(r) == IF r.c = "return" THEN Obj(r.val) ELSE r

\* helpers::unwrap_to_object
unwrap_to_object(r) ==
    IF Failed(r) \/ r.c = "obj" THEN r ELSE ErrType

\* Primitive::truthy / LoxObject::truthy / Eval::truthy
Primitive_truthy(val) ==
    CASE val.k = "bool" -> val.v = 1
      [] val.k = "nil" -> FALSE
      [] val.k = "num" -> val.v # 0 \/ DOMAIN val # {"k", "v"}
      [] OTHER -> TRUE

LoxObject_truthy(val) ==
    IF val.k \in {"bool", "nil", "num", "str"} THEN Primitive_truthy(val) ELSE FALSE

Eval_truthy(r) == IF r.c = "obj" THEN LoxObject_truthy(r.val) ELSE FALSE

\* helpers::binary_op with binary_op_error
\* the match looking at the right operand first
operand_error_right_first(l, r) ==
    IF r.k # "num" THEN binary_op_error(RightSide) ELSE binary_op_error(LeftSide)

\* the match of apply_math_op and apply_comparison on
\* (l.as_number(), r.as_number()): (None, _) first, then (_, None)
operand_error(l, r) ==
    IF l.k # "num" THEN binary_op_error(LeftSide) ELSE binary_op_error(RightSide)

apply_math_op(l, r, f) ==
    IF l.k = "num" /\ r.k = "num" THEN Obj(Num(f)) ELSE operand_error(l, r)

apply_comparison(l, r, f) ==
    IF l.k = "num" /\ r.k = "num" THEN Obj(Bool(f)) ELSE operand_error(l, r)

concat_strings(l, r) ==
    IF l.k = "str" /\ r.k = "str" THEN Obj(Str(l.v \o r.v))
    ELSE binary_op_error(InvalidTypes)

\* PartialEq for LoxObject: primitives by value (derived PartialEq, so a
\* NaN equals nothing), closures, classes, instances and native functions
\* by pointer, anything else is not equal
IsPrimitive(val) == val.k \in {"nil", "bool", "num", "str"}
IsNaN(val) == val.k = "num" /\ "nf" \in DOMAIN val /\ val.v = 0

\* PartialEq calling any two values of the same kind equal
LoxObject_eq_kind(l, r) == l.k = r.k

LoxObject_eq(l, r) ==
    IF l.k # r.k THEN FALSE
    ELSE IF IsPrimitive(l) THEN l = r /\ ~IsNaN(l)
    ELSE l.v = r.v

\* a / b on f64: a division by zero is +inf, -inf or NaN, not an error
div_f64(a, b) ==
    IF b = 0 THEN NonFinite(IF a > 0 THEN 1 ELSE IF a < 0 THEN -1 ELSE 0)
    ELSE IF a % b = 0 THEN Num(a \div b)
    ELSE Frac(a \div b, a % b, b)

apply_div(l, r) ==
    IF l.k = "num" /\ r.k = "num" THEN Obj(div_f64(l.v, r.v)) ELSE operand_error(l, r)

binary_op(l, r, op) ==
    CASE op = "+" -> IF l.k = "num" /\ r.k = "num" THEN apply_math_op(l, r, l.v + r.v)
                     ELSE concat_strings(l, r)
      [] op = "-" -> apply_math_op(l, r, l.v - r.v)
      [] op = "*" -> apply_math_op(l, r, l.v * r.v)
      [] op = "/" -> apply_div(l, r)
      [] op = ">" -> apply_comparison(l, r, l.v > r.v)
      [] op = ">=" -> apply_comparison(l, r, l.v >= r.v)
      [] op = "<" -> apply_comparison(l, r, l.v < r.v)
      [] op = "<=" -> apply_comparison(l, r, l.v <= r.v)
      [] op = "==" -> Obj(Bool(LoxObject_eq(l, r)))
      [] op = "!=" -> Obj(Bool(~LoxObject_eq(l, r)))

\* helpers::unary_op with unary_prefix_error: `!` gives value.truthy()
unary_op(value, op) ==
    IF op = "!" THEN Obj(Bool(LoxObject_truthy(value)))
    ELSE IF value.k = "num" THEN Obj(Num(value.v * (-1)))
    ELSE ErrType

(* The evaluator's call stack.  kont holds one frame for every visit       *)
(* method that has called accept and waits for its result, innermost       *)
(* last: f names the method, at the call it waits for, node the syntax it  *)
(* visits; i, val, args and scope are its local variables.  ctl says what  *)
(* happens next: a node is accepted, or a result is returned to the        *)
(* innermost frame.                                                        *)

Frame(f, at, node) ==
    [f |-> f, at |-> at, node |-> node, i |-> 0, val |-> Nil, args |-> <<>>,
     scope |-> 0]
Push(kont, frame) == Append(kont, frame)

Idle == [m |-> "idle", node |-> None, r |-> Obj(Nil)]
\* node.accept(self)
Enter(st, kont, node) ==
    [st |-> st, kont |-> kont, ctl |-> [m |-> "accept", node |-> node, r |-> Obj(Nil)]]
\* the method returns r to its caller
Return(st, kont, r) ==
    [st |-> st, kont |-> kont, ctl |-> [m |-> "return", node |-> None, r |-> r]]
Returned(res, kont) == Return(res.st, kont, res.r)

\* visit_binary: left.accept(self)
Lox_visit_binary(st, kont, e) ==
    Enter(st, Push(kont, Frame("visit_binary", "left", e)), e.left)

\* visit_binary with the result of an operand
visit_binary_operand(st, kont, fr, r) ==
    LET v == unwrap_to_object(r)
    IN  IF Failed(v) THEN Return(st, kont, v)
        ELSE IF fr.at = "left"
             THEN Enter(st, Push(kont, [fr EXCEPT !.at = "right", !.val = v.val]),
                        fr.node.right)
        ELSE Return(st, kont, binary_op(fr.val, v.val, fr.node.op))

\* visit_logical: left.accept(self)?
Lox_visit_logical(st, kont, e) ==
    Enter(st, Push(kont, Frame("visit_logical", "left", e)), e.left)

\* visit_logical evaluating the right operand whatever the left one is
visit_logical_eager(st, kont, fr, r) ==
    IF Failed(r) THEN Return(st, kont, r)
    ELSE Enter(st, kont, fr.node.right)

\* visit_logical with the left operand: it is the result when it decides
\* the operation; otherwise the result is right.accept(self)
visit_logical_left(st, kont, fr, r) ==
    IF Failed(r) THEN Return(st, kont, r)
    ELSE IF fr.node.op = "and" /\ ~Eval_truthy(r) THEN Return(st, kont, r)
    ELSE IF fr.node.op = "or" /\ Eval_truthy(r) THEN Return(st, kont, r)
    ELSE Enter(st, kont, fr.node.right)

\* visit_unary: expr.accept(self)?
Lox_visit_unary(st, kont, e) ==
    Enter(st, Push(kont, Frame("visit_unary", "value", e)), e.value)

\* visit_unary with the operand
visit_unary_value(st, kont, fr, r) ==
    LET v == unwrap_to_object(r)
    IN  IF Failed(v) THEN Return(st, kont, v)
        ELSE Return(st, kont, unary_op(v.val, fr.node.prefix))

\* resolve_variable: a resolved occurrence reads its slot, any other the
\* global table
resolve_variable(st, ident) ==
    LET ds == depth_slot(ident)
        got == Scope_get_at(st.frames, st.cur, ds.depth, ds.slot)
    IN  IF ds.t = "some"
        THEN IF got.ok
             THEN Res(Misread(st, ident, got.frame, ds.slot), Obj(got.val))
             ELSE Res(st, Panic)
        ELSE IF ident.name \in DOMAIN st.globals
             THEN Res(st, Obj(st.globals[ident.name]))
             ELSE Res(st, ErrReference)

\* set_at on the interpreter: the frame chain with the slot overwritten
Lox_set_at(st, ident, ds, value) ==
    LET put == Scope_set_at(st.frames, st.cur, ds.depth, ds.slot, value)
    IN  IF put.ok
        THEN Res(Misread([st EXCEPT !.frames = put.frames], ident, put.frame, ds.slot),
                 Obj(value))
        ELSE Res(st, Panic)

\* visit_assignment: value.accept(self)
Lox_visit_assignment(st, kont, e) ==
    Enter(st, Push(kont, Frame("visit_assignment", "value", e)), e.value)

\* visit_assignment with the value
visit_assignment_value(st, kont, fr, r) ==
    LET v == unwrap_to_object(r)
        ds == depth_slot(fr.node.ident)
    IN  IF Failed(v) THEN Return(st, kont, v)
        ELSE IF ds.t = "some"
             THEN Returned(Lox_set_at(st, fr.node.ident, ds, v.val), kont)
        ELSE Returned(assign_global(st, fr.node.ident, v.val), kont)

\* call_fn: the body runs in a new frame whose parent is the closure's
\* captured frame.  Every call is logged: the closure's frame, the frame
\* made for the parameters, the number of frames made, the caller's frame.
call_fn(st, kont, func, args) ==
    LET s1 == setup_function_environment(st, func, args)
    IN  Enter([s1 EXCEPT !.calls =
                  Append(@, [closure |-> func.closure,
                             frame |-> s1.cur,
                             made |-> Len(s1.frames) - Len(st.frames),
                             caller |-> st.cur])],
              Push(kont, [Frame("call_fn", "body", None) EXCEPT !.scope = st.cur]),
              func.body)

\* call_fn with the result of the body: the caller's frame is current
\* again; then execute_call unwraps a Return.  The kind of result every
\* call of a function gave is logged.
call_fn_body(st, kont, fr, r) ==
    LET s1 == restore_scope(st, fr.scope)
        v == unwrap_return(r)
    IN  IF Failed(r) \/ fr.at = "init" THEN Return(s1, kont, r)
        ELSE Return([s1 EXCEPT !.callres = Append(@, v.c)], kont, v)

\* The native functions of runtime/native.rs
call_native(st, f, rt_args) ==
    IF f = 1 THEN Res(st, Obj(Num(0)))
    ELSE IF Len(rt_args) # 1 THEN Res(st, [c |-> "err", val |-> [k |-> "NativeError", v |-> 0]])
    ELSE Res(st, Obj([k |-> "str", v |-> rt_args[1].v]))

\* Class::get_method looking at the class's own table only
Class_get_method_own(classes, c, name) ==
    IF name \in DOMAIN classes[c].methods THEN classes[c].methods[name] ELSE 0

\* Class::get_method: the class's own table, then the superclass chain
\* (0: None)
RECURSIVE Class_get_method(_, _, _)
Class_get_method(classes, c, name) ==
    IF name \in DOMAIN classes[c].methods THEN classes[c].methods[name]
    ELSE IF classes[c].super_class # 0
         THEN Class_get_method(classes, classes[c].super_class, name)
    ELSE 0

Class_get_static(classes, c, name) ==
    IF name \in DOMAIN classes[c].statics THEN classes[c].statics[name] ELSE 0

Class_init(classes, c) == classes[c].init

\* ClassInstance::get: an own property, else a method of the class
ClassInstance_get(st, ci, prop) ==
    LET instance == st.insts[ci]
        method == Class_get_method(st.classes, instance.constructor, prop)
    IN  IF prop \in DOMAIN instance.properties
        THEN [t |-> "some", val |-> instance.properties[prop]]
        ELSE IF method # 0 THEN [t |-> "some", val |-> FnVal(method)]
        ELSE None

ClassInstance_set(st, ci, prop, value) ==
    [st EXCEPT !.insts[ci].properties = Put(@, prop, value)]

\* Function::bind defining `this` in the closure's own frame
Function_bind_in_place(st, f, target) ==
    LET func == st.fns[f]
        env == Scope_define(Scope_declare(st.frames[func.closure], "this", 0),
                            "this", target)
    IN  Res([st EXCEPT !.frames[func.closure] = env,
                       !.binds = Append(@, [of |-> f, bound |-> f,
                                            frame |-> func.closure,
                                            target |-> target])],
            Obj(FnVal(f)))

\* Function::bind: a new function over a new child frame of the closure,
\* in which `this` is declared and defined
Function_bind(st, f, target) ==
    LET func == st.fns[f]
        env == Scope_define(Scope_declare(Scope_new(func.closure), "this", 0),
                            "this", target)
    IN  Res([st EXCEPT !.frames = Append(@, env),
                       !.fns = Append(@, [closure |-> Len(st.frames) + 1,
                                          params |-> func.params,
                                          body |-> func.body]),
                       !.binds = Append(@, [of |-> f, bound |-> Len(st.fns) + 1,
                                            frame |-> Len(st.frames) + 1,
                                            target |-> target])],
            Obj(FnVal(Len(st.fns) + 1)))

\* handle_class_instance_get: a function found by the lookup is bound
handle_class_instance_get(st, ci, property) ==
    LET value == ClassInstance_get(st, ci, property)
    IN  IF value.t = "none" THEN Res(st, ErrReference)
        ELSE IF value.val.k = "fn" THEN Function_bind(st, value.val.v, InstVal(ci))
        ELSE Res(st, Obj(value.val))

\* handle_class_get looking in the instance methods as well
handle_class_get_any(st, class, property) ==
    LET f == Class_get_static(st.classes, class, property)
        m == Class_get_method(st.classes, class, property)
    IN  IF f # 0 THEN Res(st, Obj(FnVal(f)))
        ELSE IF m # 0 THEN Res(st, Obj(FnVal(m)))
        ELSE Res(st, ErrReference)

\* handle_class_get: the class's own static table only
handle_class_get(st, class, property) ==
    LET f == Class_get_static(st.classes, class, property)
    IN  IF f # 0 THEN Res(st, Obj(FnVal(f))) ELSE Res(st, ErrReference)

handle_object_get(st, obj, property) ==
    CASE obj.k = "inst" -> handle_class_instance_get(st, obj.v, property)
      [] obj.k = "class" -> handle_class_get(st, obj.v, property)
      [] OTHER -> Res(st, ErrReference)

\* visit_get: object.accept(self)
Lox_visit_get(st, kont, e) ==
    Enter(st, Push(kont, Frame("visit_get", "object", e)), e.object)

\* visit_get with the object
visit_get_object(st, kont, fr, r) ==
    IF Failed(r) THEN Return(st, kont, r)
    ELSE IF r.c # "obj" THEN Return(st, kont, ErrType)
    ELSE Returned(handle_object_get(st, r.val, fr.node.property), kont)

\* visit_set: object.accept(self)
Lox_visit_set(st, kont, e) ==
    Enter(st, Push(kont, Frame("visit_set", "object", e)), e.object)

\* visit_set with the object, then with the value: only an instance takes
\* a property
visit_set_part(st, kont, fr, r) ==
    LET v == unwrap_to_object(r)
    IN  IF Failed(r) THEN Return(st, kont, r)
        ELSE IF fr.at = "object"
             THEN IF r.c = "obj" /\ r.val.k = "inst"
                  THEN Enter(st, Push(kont, [fr EXCEPT !.at = "value", !.val = r.val]),
                             fr.node.value)
                  ELSE Return(st, kont, ErrType)
        ELSE IF Failed(v) THEN Return(st, kont, v)
        ELSE Return(ClassInstance_set(st, fr.val.v, fr.node.property, v.val), kont,
                    Obj(Nil))

\* visit_this: Lox::resolve, a miss is a ReferenceError
Lox_visit_this(st, ident) ==
    LET ds == depth_slot(ident)
        got == Scope_get_at(st.frames, st.cur, ds.depth, ds.slot)
    IN  IF ds.t = "some"
        THEN IF got.ok
             THEN Res(Misread(st, ident, got.frame, ds.slot), Obj(got.val))
             ELSE Res(st, Panic)
        ELSE IF ident.name \in DOMAIN st.globals
             THEN Res(st, Obj(st.globals[ident.name]))
             ELSE Res(st, ErrReference)

\* collect_class_methods: a closure over the current scope for every
\* method; `init` goes to the init slot, a static method to the static
\* table, any other to the method table
RECURSIVE collect_class_methods(_, _, _, _)
collect_class_methods(st, methods, i, tables) ==
    IF i > Len(methods) THEN [st |-> st, tables |-> tables]
    ELSE LET method == methods[i]
             name == method.name.ident.name
             func == Len(st.fns) + 1
             s1 == [st EXCEPT !.fns = Append(@, [closure |-> st.cur,
                                                 params |-> method.params,
                                                 body |-> method.body])]
         IN  collect_class_methods(s1, methods, i + 1,
                 IF name = "init" THEN [tables EXCEPT !.init = func]
                 ELSE IF method.is_static
                      THEN [tables EXCEPT !.statics = Put(@, name, func)]
                 ELSE [tables EXCEPT !.methods = Put(@, name, func)])

\* Class::new and the end of visit_class_statement: the class is bound to
\* its name and is the result
Class_new(st, s, super_class) ==
    LET made == collect_class_methods(st, s.methods, 1,
                    [methods |-> EmptyMap, statics |-> EmptyMap, init |-> 0])
        class == [name |-> s.ident.name, methods |-> made.tables.methods,
                  statics |-> made.tables.statics, super_class |-> super_class,
                  init |-> made.tables.init]
        s1 == [made.st EXCEPT !.classes = Append(@, class)]
    IN  Res(Lox_bind(s1, s.ident, ClassVal(Len(st.classes) + 1)),
            Obj(ClassVal(Len(st.classes) + 1)))

\* visit_class_statement; a superclass expression is evaluated first
Lox_visit_class_statement(st, kont, s) ==
    IF s.super.t = "none" THEN Returned(Class_new(st, s, 0), kont)
    ELSE Enter(st, Push(kont, Frame("visit_class_statement", "super_class", s)),
               s.super)

\* visit_class_statement with the value of the superclass expression,
\* which becomes the class's superclass reference
visit_class_super(st, kont, fr, r) ==
    IF Failed(r) THEN Return(st, kont, r)
    ELSE IF r.c = "obj" /\ r.val.k = "class"
         THEN Returned(Class_new(st, fr.node, r.val.v), kont)
    ELSE Return(st, kont, ErrType)

\* instantiate_class: a new instance without properties; the class's
\* initializer, if it has one, is bound to the instance and called, and
\* what it returns is dropped
instantiate_class(st, kont, class, rt_args) ==
    LET s1 == [st EXCEPT !.insts = Append(@, [constructor |-> class,
                                              properties |-> EmptyMap])]
        obj == InstVal(Len(st.insts) + 1)
        init == Class_init(st.classes, class)
        bound == Function_bind(s1, init, obj)
        called == call_fn(bound.st,
                          Push(kont, [Frame("instantiate_class", "init", None)
                                        EXCEPT !.val = obj]),
                          bound.st.fns[bound.r.val.v], rt_args)
    IN  IF init = 0 THEN Return(s1, kont, Obj(obj))
        ELSE [called EXCEPT !.kont[Len(called.kont)].at = "init"]

\* instantiate_class with the result of the initializer
instantiate_class_init(st, kont, fr, r) ==
    IF Failed(r) THEN Return(st, kont, r) ELSE Return(st, kont, Obj(fr.val))

execute_call(st, kont, call_obj, rt_args) ==
    CASE call_obj.k = "native" -> Returned(call_native(st, call_obj.v, rt_args), kont)
      [] call_obj.k = "fn" -> call_fn(st, kont, st.fns[call_obj.v], rt_args)
      [] call_obj.k = "class" -> instantiate_class(st, kont, call_obj.v, rt_args)
      [] OTHER -> Return(st, kont, ErrType)

\* evaluate_arguments: left to right; when all are evaluated, execute_call
evaluate_arguments(st, kont, fr) ==
    IF Len(fr.args) = Len(fr.node.args)
    THEN execute_call(st, kont, fr.val, fr.args)
    ELSE Enter(st, Push(kont, fr), fr.node.args[Len(fr.args) + 1])

\* visit_call: callee.expr.accept(self)
Lox_visit_call(st, kont, e) ==
    Enter(st, Push(kont, Frame("visit_call", "callee", e)), e.callee)

\* visit_call with the callee, evaluate_arguments with an argument
visit_call_part(st, kont, fr, r) ==
    LET v == unwrap_to_object(r)
    IN  IF Failed(v) THEN Return(st, kont, v)
        ELSE IF fr.at = "callee"
             THEN evaluate_arguments(st, kont, [fr EXCEPT !.at = "args", !.val = v.val])
        ELSE evaluate_arguments(st, kont, [fr EXCEPT !.args = Append(@, v.val)])

\* visit_function capturing a copy of the current frame
Lox_visit_function_copy(st, value) ==
    Res([st EXCEPT !.frames = Append(@, st.frames[st.cur]),
                   !.fns = Append(@, [closure |-> Len(st.frames) + 1,
                                      params |-> value.params,
                                      body |-> value.body])],
        Obj(FnVal(Len(st.fns) + 1)))

\* visit_function: the closure captures the frame that is current now
Lox_visit_function(st, value) ==
    Res([st EXCEPT !.fns = Append(@, [closure |-> st.cur,
                                      params |-> value.params,
                                      body |-> value.body])],
        Obj(FnVal(Len(st.fns) + 1)))

Lox_visit_return_statment(st, kont, s) ==
    IF s.value.t = "none" THEN Return(st, kont, CtrlReturn(Nil))
    ELSE Enter(st, Push(kont, Frame("visit_return_statment", "value", s)), s.value)

visit_return_value(st, kont, fr, r) ==
    LET v == unwrap_to_object(r)
    IN  IF Failed(v) THEN Return(st, kont, v)
        ELSE Return(st, kont, CtrlReturn(v.val))

Lox_visit_print_statement(st, kont, s) ==
    Enter(st, Push(kont, Frame("visit_print_statement", "expr", s)), s.expr)

visit_print_value(st, kont, fr, r) ==
    IF ~Failed(r) /\ r.c = "obj"
    THEN Return([st EXCEPT !.out = Append(@, r.val)], kont, r)
    ELSE Return(st, kont, r)

Lox_visit_var_statement(st, kont, s) ==
    IF s.init.t = "none" THEN Return(Lox_bind(st, s.ident, Nil), kont, Obj(Nil))
    ELSE Enter(st, Push(kont, Frame("visit_var_statement", "initializer", s)), s.init)

visit_var_value(st, kont, fr, r) ==
    LET v == unwrap_to_object(r)
    IN  IF Failed(v) THEN Return(st, kont, v)
        ELSE Return(Lox_bind(st, fr.node.ident, v.val), kont, Obj(Nil))

\* execute_block: the statements in order; visit_block_statement sheds the
\* scope when the last one has been executed
execute_block(st, kont, fr) ==
    IF fr.i > Len(fr.node.stmts) THEN Return(shed_scope(st), kont, Obj(Nil))
    ELSE Enter(st, Push(kont, fr), fr.node.stmts[fr.i])

\* visit_block_statement: create_scope, execute_block
Lox_visit_block_statement(st, kont, s) ==
    execute_block(create_scope(st), kont,
                  [Frame("visit_block_statement", "execute_block", s)
                     EXCEPT !.i = 1, !.scope = st.cur])

\* execute_block going on with the next statement after a control signal
execute_block_result_ignore(st, kont, fr, r) ==
    IF Failed(r) THEN Return(shed_scope(st), kont, r)
    ELSE execute_block(st, kont, [fr EXCEPT !.i = @ + 1])

\* execute_block with the result of a statement: a failure or a control
\* signal ends the block, and visit_block_statement sheds the scope.  In
\* lox.rs (367-381) the `?` on the statement returns the error before
\* shed_scope is reached.
execute_block_result(st, kont, fr, r) ==
    IF Failed(r) /\ st.build = "lox.rs" THEN Return(st, kont, r)
    ELSE IF Failed(r) \/ r.c # "obj" THEN Return(shed_scope(st), kont, r)
    ELSE execute_block(st, kont, [fr EXCEPT !.i = @ + 1])

Lox_visit_if_statement(st, kont, s) ==
    Enter(st, Push(kont, Frame("visit_if_statement", "condition", s)), s.cond)

visit_if_condition(st, kont, fr, r) ==
    IF Failed(r) THEN Return(st, kont, r)
    ELSE IF Eval_truthy(r) THEN Enter(st, kont, fr.node.then)
    ELSE IF fr.node.else.t # "none" THEN Enter(st, kont, fr.node.else)
    ELSE Return(st, kont, Obj(Nil))

\* visit_while_statement: condition.accept(self)
Lox_visit_while_statement(st, kont, s) ==
    Enter(st, Push(kont, Frame("visit_while_statement", "condition", s)), s.cond)

visit_while_condition(st, kont, fr, r) ==
    IF Failed(r) THEN Return(st, kont, r)
    ELSE IF ~Eval_truthy(r) THEN Return(st, kont, Obj(Nil))
    ELSE Enter(st, Push(kont, [fr EXCEPT !.at = "block"]), fr.node.body)

\* The loop handing a Break on to its caller
while_loop_propagate(st, kont, fr, r) ==
    IF Failed(r) THEN Return(st, kont, r)
    ELSE IF r.c = "break" THEN Return(st, kont, r)
    ELSE IF r.c = "return" THEN Return(st, kont, r)
    ELSE Enter(st, Push(kont, [fr EXCEPT !.at = "condition"]), fr.node.cond)

\* The loop of visit_while_statement with the result of the body
while_loop(st, kont, fr, r) ==
    IF Failed(r) THEN Return(st, kont, r)
    ELSE IF r.c = "break" THEN Return(st, kont, Obj(Nil))
    ELSE IF r.c = "return" THEN Return(st, kont, r)
    ELSE Enter(st, Push(kont, [fr EXCEPT !.at = "condition"]), fr.node.cond)

\* Expr::accept with the interpreter as visitor
Lox_expr(st, kont, e) ==
    CASE e.t = "lit" -> Return(st, kont, Obj(e.val))
      [] e.t = "var" -> Returned(resolve_variable(st, e.ident), kont)
      [] e.t = "assign" -> Lox_visit_assignment(st, kont, e)
      [] e.t = "bin" -> Lox_visit_binary(st, kont, e)
      [] e.t = "logical" -> Lox_visit_logical(st, kont, e)
      [] e.t = "unary" -> Lox_visit_unary(st, kont, e)
      [] e.t = "call" -> Lox_visit_call(st, kont, e)
      [] e.t = "fun" -> Returned(Lox_visit_function(st, e.fn), kont)
      [] e.t = "get" -> Lox_visit_get(st, kont, e)
      [] e.t = "set" -> Lox_visit_set(st, kont, e)
      [] e.t = "this" -> Returned(Lox_visit_this(st, e.ident), kont)

\* Stmt::accept with the interpreter as visitor
Lox_stmt(st, kont, s) ==
    CASE s.t = "expr" -> Enter(st, kont, s.expr)
      [] s.t = "print" -> Lox_visit_print_statement(st, kont, s)
      [] s.t = "vardecl" -> Lox_visit_var_statement(st, kont, s)
      [] s.t = "block" -> Lox_visit_block_statement(st, kont, s)
      [] s.t = "if" -> Lox_visit_if_statement(st, kont, s)
      [] s.t = "while" -> Lox_visit_while_statement(st, kont, s)
      [] s.t = "break" -> Return(st, kont, CtrlBreak)
      [] s.t = "continue" -> Return(st, kont, CtrlContinue)
      [] s.t = "return" -> Lox_visit_return_statment(st, kont, s)
      [] s.t = "class" -> Lox_visit_class_statement(st, kont, s)

\* A result comes back to the innermost waiting method
Lox_resume(st, stack, r) ==
    LET fr == stack[Len(stack)]
        kont == SubSeq(stack, 1, Len(stack) - 1)
    IN  CASE fr.f = "visit_binary" -> visit_binary_operand(st, kont, fr, r)
          [] fr.f = "visit_logical" -> visit_logical_left(st, kont, fr, r)
          [] fr.f = "visit_unary" -> visit_unary_value(st, kont, fr, r)
          [] fr.f = "visit_assignment" -> visit_assignment_value(st, kont, fr, r)
          [] fr.f = "visit_call" -> visit_call_part(st, kont, fr, r)
          [] fr.f = "call_fn" -> call_fn_body(st, kont, fr, r)
          [] fr.f = "visit_return_statment" -> visit_return_value(st, kont, fr, r)
          [] fr.f = "visit_print_statement" -> visit_print_value(st, kont, fr, r)
          [] fr.f = "visit_var_statement" -> visit_var_value(st, kont, fr, r)
          [] fr.f = "visit_block_statement" -> execute_block_result(st, kont, fr, r)
          [] fr.f = "visit_if_statement" -> visit_if_condition(st, kont, fr, r)
          [] fr.f = "visit_get" -> visit_get_object(st, kont, fr, r)
          [] fr.f = "visit_set" -> visit_set_part(st, kont, fr, r)
          [] fr.f = "visit_class_statement" -> visit_class_super(st, kont, fr, r)
          [] fr.f = "instantiate_class" -> instantiate_class_init(st, kont, fr, r)
          [] fr.f = "visit_while_statement" ->
                IF fr.at = "condition" THEN visit_while_condition(st, kont, fr, r)
                ELSE while_loop(st, kont, fr, r)

-----------------------------------------------------------------------------
(* Source programs.  A descriptor [tmpl, a, b, c] names one program of a   *)
(* family; Program builds its syntax tree.                                 *)

MaxIter == 2     \* loop bound used by the loop programs
MaxArgs == 3     \* most arguments passed to the two-parameter function
MaxCalls == 3    \* number of calls made on the two counters
MaxVal == 2      \* values stored through the setter closure
MaxNest == 2     \* nesting depth of blocks and ifs around a break

N(n) == Lit(Num(n))
Incr(id, name) == ExprS(Assign(id, name, Bin("+", Var(id + 1, name), N(1))))
FunS(id, name, params, stmts) == ExprS(FunE(Fn(Named(id, name), params, stmts)))
Wrap(stmts, wrap) == IF wrap = 1 THEN <<BlockS(stmts)>> ELSE stmts

\* { if (c) fun f() {}  var b = 7;  print b; }
IfDeclProgram(c) ==
    <<BlockS(<<IfS(Lit(Bool(c = 1)), FunS(1, "f", <<>>, <<>>), None),
               VarS(2, "b", N(7)),
               PrintS(Var(3, "b"))>>)>>

\* { var i = 0;  while ((i = i + 1) <= n) fun f() {}  var b = 7;  print b; }
LoopDeclProgram(n) ==
    <<BlockS(<<VarS(1, "i", N(0)),
               WhileS(Bin("<=", Assign(2, "i", Bin("+", Var(3, "i"), N(1))), N(n)),
                      FunS(4, "f", <<>>, <<>>)),
               VarS(5, "b", N(7)),
               PrintS(Var(6, "b"))>>)>>

\* var x = 1;  fun f() { return x; }  { var x = 2; print f(); }  print f();
LexicalProgram(wrap) ==
    Wrap(<<VarS(1, "x", N(1)),
           FunS(2, "f", <<>>, <<ReturnS(Var(3, "x"))>>),
           BlockS(<<VarS(4, "x", N(2)), PrintS(Call(Var(5, "f"), <<>>))>>),
           PrintS(Call(Var(6, "f"), <<>>))>>, wrap)

\* var a = 1;  { var a = 2; print a; a = 3; print a; }  print a;
ShadowProgram(wrap) ==
    Wrap(<<VarS(1, "a", N(1)),
           BlockS(<<VarS(2, "a", N(2)), PrintS(Var(3, "a")),
                    ExprS(Assign(4, "a", N(3))), PrintS(Var(5, "a"))>>),
           PrintS(Var(6, "a"))>>, wrap)

\* Which counter the j-th call of the pattern uses
Picks(pattern, j) == IF (pattern \div (2 ^ (j - 1))) % 2 = 1 THEN "b" ELSE "a"

\* fun make() { var c = 0; fun inc() { c = c + 1; return c; } return inc; }
\* var a = make();  var b = make();  then print a(); or print b(); per call
CounterProgram(pattern) ==
    <<FunS(1, "make", <<>>,
           <<VarS(2, "c", N(0)),
             FunS(3, "inc", <<>>, <<Incr(4, "c"), ReturnS(Var(6, "c"))>>),
             ReturnS(Var(7, "inc"))>>),
      VarS(8, "a", Call(Var(9, "make"), <<>>)),
      VarS(10, "b", Call(Var(11, "make"), <<>>))>>
    \o [j \in 1..MaxCalls |-> PrintS(Call(Var(11 + j, Picks(pattern, j)), <<>>))]

\* var g; var s;
\* fun make() { var c = 0; fun get() { return c; } fun set(v) { c = v; }
\*              g = get; s = set; }
\* make();  print g();  s(v);  print g();  s(v + 1);  print g();
SiblingProgram(v) ==
    <<VarS(1, "g", None), VarS(2, "s", None),
      FunS(3, "make", <<>>,
           <<VarS(4, "c", N(0)),
             FunS(5, "get", <<>>, <<ReturnS(Var(6, "c"))>>),
             FunS(7, "set", <<Ident(8, "v")>>, <<ExprS(Assign(9, "c", Var(10, "v")))>>),
             ExprS(Assign(11, "g", Var(12, "get"))),
             ExprS(Assign(13, "s", Var(14, "set")))>>),
      ExprS(Call(Var(15, "make"), <<>>)),
      PrintS(Call(Var(16, "g"), <<>>)),
      ExprS(Call(Var(17, "s"), <<N(v)>>)),
      PrintS(Call(Var(18, "g"), <<>>)),
      ExprS(Call(Var(19, "s"), <<N(v + 1)>>)),
      PrintS(Call(Var(20, "g"), <<>>))>>

\* The statement holding the break, under d levels of { if (true) { .. } }.
\* Every level ends with post = post + 1, which a break must skip.
RECURSIVE Nest(_, _)
Nest(d, k) ==
    IF d = 0 THEN IfS(Bin("==", Var(30, "e"), N(k)), BreakS, None)
    ELSE BlockS(<<IfS(Lit(Bool(TRUE)),
                      BlockS(<<Nest(d - 1, k), Incr(40 + 4 * d, "post")>>), None),
                  Incr(42 + 4 * d, "post")>>)

\* while ((e = e + 1) <= MaxIter) { <Nest>  post = post + 1; }
InnerLoop(d, k) ==
    WhileS(Bin("<=", Assign(31, "e", Bin("+", Var(32, "e"), N(1))), N(MaxIter)),
           BlockS(<<Nest(d, k), Incr(33, "post")>>))

\* shape 0: var e = 0; var post = 0; <InnerLoop> print e; print post;
\* shape 1: the inner loop runs inside the body of an outer loop
\*          while ((o = o + 1) <= 2) { e = 0; <InnerLoop> after = after + 1; }
\* shape 2: shape 1 inside a block, so that every variable is a local
BreakProgram(d, k, shape) ==
    IF shape = 0
    THEN <<VarS(1, "e", N(0)), VarS(2, "post", N(0)), InnerLoop(d, k),
           PrintS(Var(3, "e")), PrintS(Var(4, "post"))>>
    ELSE Wrap(<<VarS(1, "e", N(0)), VarS(2, "post", N(0)),
                VarS(5, "o", N(0)), VarS(6, "after", N(0)),
                WhileS(Bin("<=", Assign(7, "o", Bin("+", Var(8, "o"), N(1))), N(2)),
                       BlockS(<<ExprS(Assign(9, "e", N(0))), InnerLoop(d, k),
                                Incr(10, "after")>>)),
                PrintS(Var(3, "e")), PrintS(Var(4, "post")),
                PrintS(Var(12, "o")), PrintS(Var(13, "after"))>>, shape - 1)

\* 0: var n = 0; while (n < MaxIter) { n = n + 1; fun f() { break; } f(); } print n;
\* 1: var f; while (true) { f = fun () { break; }; break; }  f();
\* 2: fun f() { while (true) { { return 5; } } }  print f();
SignalProgram(which) ==
    CASE which = 0 ->
            <<VarS(1, "n", N(0)),
              WhileS(Bin("<", Var(2, "n"), N(MaxIter)),
                     BlockS(<<Incr(3, "n"), FunS(5, "f", <<>>, <<BreakS>>),
                              ExprS(Call(Var(6, "f"), <<>>))>>)),
              PrintS(Var(7, "n"))>>
      [] which = 1 ->
            <<VarS(1, "f", None),
              WhileS(Lit(Bool(TRUE)),
                     BlockS(<<ExprS(Assign(2, "f", FunE(Fn(None, <<>>, <<BreakS>>)))),
                              BreakS>>)),
              ExprS(Call(Var(3, "f"), <<>>))>>
      [] OTHER ->
            <<FunS(1, "f", <<>>,
                   <<WhileS(Lit(Bool(TRUE)), BlockS(<<BlockS(<<ReturnS(N(5))>>)>>))>>),
              PrintS(Call(Var(2, "f"), <<>>))>>

\* var a = a;  at top level (0), in a block (1), in a function body (2)
SelfInitProgram(place) ==
    LET decl == VarS(1, "a", Var(2, "a"))
    IN  CASE place = 0 -> <<decl, PrintS(N(1))>>
          [] place = 1 -> <<BlockS(<<decl>>), PrintS(N(1))>>
          [] OTHER -> <<FunS(3, "f", <<>>, <<decl>>), PrintS(N(1))>>

\* Programs the parser rejects: break outside a loop (0), return outside a
\* function (1)
RejectedProgram(which) ==
    IF which = 0 THEN <<BreakS, PrintS(N(1))>>
    ELSE <<ReturnS(N(1)), PrintS(N(1))>>

\* The return statement under d levels of nesting; the levels are, in
\* turn from kind on, a block, an if and a while(true).  Every level ends
\* with post = post + 1, which the return must skip.
RECURSIVE ReturnNest(_, _, _)
ReturnNest(d, kind, value) ==
    LET inner == BlockS(<<ReturnNest(d - 1, kind + 1, value), Incr(50 + 4 * d, "post")>>)
    IN  IF d = 0 THEN ReturnS(value)
        ELSE CASE kind % 3 = 0 -> inner
               [] kind % 3 = 1 -> IfS(Lit(Bool(TRUE)), inner, None)
               [] OTHER -> WhileS(Lit(Bool(TRUE)), inner)

\* var post = 0;
\* fun f() { <ReturnNest>  post = post + 1;  return 8; }
\* print f();  print post;  print 1;
\* how 0: return 5;  1: return;  2: f has no return at all.  With wrap the
\* program is inside a block, so that post and f are locals.
ReturnProgram(d, kind, how, wrap) ==
    Wrap(<<VarS(1, "post", N(0)),
           FunS(2, "f", <<>>,
                IF how = 2 THEN <<Incr(3, "post")>>
                ELSE <<ReturnNest(d, kind, IF how = 0 THEN N(5) ELSE None),
                       Incr(3, "post"), ReturnS(N(8))>>),
           PrintS(Call(Var(5, "f"), <<>>)),
           PrintS(Var(6, "post")),
           PrintS(N(1))>>, wrap)

\* Bit k of mask
Has(mask, k) == (mask \div (2 ^ k)) % 2 = 1

\* name() { return n; }
Returns(id, name, n) == Fn(Named(id, name), <<>>, <<ReturnS(N(n))>>)

\* class A { m() { return 1; } }  class B < A { m() { return 2; } }
\* class C < B { m() { return 3; } }     each m only if its bit of mask is set
\* var o = C();  o.m = 0; (if prop = 1)  print o.m(); (print o.m; if prop = 1)
\* print 9;
LookupProgram(mask, prop, wrap) ==
    Wrap(<<ClassS(1, "A", None, IF Has(mask, 0) THEN <<Returns(2, "m", 1)>> ELSE <<>>),
           ClassS(3, "B", Var(4, "A"),
                  IF Has(mask, 1) THEN <<Returns(5, "m", 2)>> ELSE <<>>),
           ClassS(6, "C", Var(7, "B"),
                  IF Has(mask, 2) THEN <<Returns(8, "m", 3)>> ELSE <<>>),
           VarS(9, "o", Call(Var(10, "C"), <<>>))>>
         \o (IF prop = 1
             THEN <<ExprS(Set(Var(11, "o"), "m", N(0))),
                    PrintS(Get(Var(12, "o"), "m"))>>
             ELSE <<PrintS(Call(Get(Var(12, "o"), "m"), <<>>))>>)
         \o <<PrintS(N(9))>>, wrap)

\* class A { static s() { return 1; }  m() { return 2; }  init() {} }
\* class B < A { static t() { return 3; } }
\* print <access>;  print 9;       the access chosen by which:
\*   0 A.s()   1 B.t()   2 A().s   3 B().t   4 A.m   5 A.init   6 B.s   7 A.zz
StaticAccess(which) ==
    CASE which = 0 -> Call(Get(Var(10, "A"), "s"), <<>>)
      [] which = 1 -> Call(Get(Var(10, "B"), "t"), <<>>)
      [] which = 2 -> Get(Call(Var(10, "A"), <<>>), "s")
      [] which = 3 -> Get(Call(Var(10, "B"), <<>>), "t")
      [] which = 4 -> Get(Var(10, "A"), "m")
      [] which = 5 -> Get(Var(10, "A"), "init")
      [] which = 6 -> Get(Var(10, "B"), "s")
      [] OTHER -> Get(Var(10, "A"), "zz")

StaticProgram(which, wrap) ==
    Wrap(<<ClassS(1, "A", None,
                  <<StaticFn(Named(2, "s"), <<>>, <<ReturnS(N(1))>>),
                    Returns(3, "m", 2),
                    Fn(Named(4, "init"), <<>>, <<>>)>>),
           ClassS(5, "B", Var(6, "A"),
                  <<StaticFn(Named(7, "t"), <<>>, <<ReturnS(N(3))>>)>>),
           PrintS(StaticAccess(which)),
           PrintS(N(9))>>, wrap)

\* var g = 1;  print 1;  <use of u>;  print 2;      u is declared nowhere
\* the use is  print u;  u();  or  u = 1;  at top level, in a block, or in
\* the body of a function that is then called
UndeclaredUse(kind) ==
    CASE kind = 0 -> PrintS(Var(10, "u"))
      [] kind = 1 -> ExprS(Call(Var(10, "u"), <<>>))
      [] OTHER -> ExprS(Assign(10, "u", N(1)))

UndeclaredProgram(kind, place) ==
    <<VarS(1, "g", N(1)), PrintS(N(1))>>
    \o (CASE place = 0 -> <<UndeclaredUse(kind)>>
          [] place = 1 -> <<BlockS(<<UndeclaredUse(kind)>>)>>
          [] OTHER -> <<FunS(5, "f", <<>>, <<UndeclaredUse(kind)>>),
                        ExprS(Call(Var(6, "f"), <<>>))>>)
    \o <<PrintS(N(2))>>

\* var a = n;  var b = 0;  a = 0 - a; (if neg = 1)  print a / b;  print 2;
DivZeroProgram(n, neg) ==
    <<VarS(1, "a", N(n)), VarS(2, "b", N(0))>>
    \o (IF neg = 1 THEN <<ExprS(Assign(3, "a", Bin("-", N(0), Var(4, "a"))))>>
        ELSE <<>>)
    \o <<PrintS(Bin("/", Var(5, "a"), Var(6, "b"))), PrintS(N(2))>>

\* var g = 1;  print 1;  <failing statements>;  print 2;  var h = 2;
\* failing: 0  print u;   1  print g - nil;   2  g();
\*          3  fun f() { return u; }  f();
FailingStmts(kind) ==
    CASE kind = 0 -> <<PrintS(Var(10, "u"))>>
      [] kind = 1 -> <<PrintS(Bin("-", Var(10, "g"), Lit(Nil)))>>
      [] kind = 2 -> <<ExprS(Call(Var(10, "g"), <<>>))>>
      [] OTHER -> <<FunS(5, "f", <<>>, <<ReturnS(Var(10, "u"))>>),
                    ExprS(Call(Var(6, "f"), <<>>))>>

FailStopProgram(kind) ==
    <<VarS(1, "g", N(1)), PrintS(N(1))>> \o FailingStmts(kind)
    \o <<PrintS(N(2)), VarS(9, "h", N(2))>>

\* class A { init(x) { print x; return 7; } }     (which = 0, 1)
\* class B < A {}                                  (which = 1)
\* class A {}                                      (which = 2)
\* class A { init(x) { print u; } }                (which = 3)
\* var o = A(2);  (B(2) if which = 1)  o.p = 3;  print o.p;  print 9;
InitProgram(which, wrap) ==
    Wrap(<<ClassS(1, "A", None,
                  CASE which \in {0, 1} ->
                           <<Fn(Named(2, "init"), <<Ident(3, "x")>>,
                                <<PrintS(Var(4, "x")), ReturnS(N(7))>>)>>
                    [] which = 2 -> <<>>
                    [] OTHER -> <<Fn(Named(2, "init"), <<Ident(3, "x")>>,
                                     <<PrintS(Var(4, "u"))>>)>>)>>
         \o (IF which = 1 THEN <<ClassS(5, "B", Var(6, "A"), <<>>)>> ELSE <<>>)
         \o <<VarS(7, "o", Call(Var(8, IF which = 1 THEN "B" ELSE "A"), <<N(2)>>)),
              ExprS(Set(Var(9, "o"), "p", N(3))),
              PrintS(Get(Var(10, "o"), "p")),
              PrintS(N(9))>>, wrap)

\* class A { m() { <body> } }   with <body>, by where:
\*   0  return this;     1  { { return this; } }
\*   2  fun g() { return this; }  return g();
\* var o = A();  var p = A();  o.k = 1;  p.k = 2;
\* print o.m().k;  print p.m().k;  print 9;
ThisBody(where) ==
    CASE where = 0 -> <<ReturnS(This(3))>>
      [] where = 1 -> <<BlockS(<<BlockS(<<ReturnS(This(3))>>)>>)>>
      [] OTHER -> <<FunS(4, "g", <<>>, <<ReturnS(This(3))>>),
                    ReturnS(Call(Var(5, "g"), <<>>))>>

ThisProgram(where, wrap) ==
    Wrap(<<ClassS(1, "A", None, <<Fn(Named(2, "m"), <<>>, ThisBody(where))>>),
           VarS(6, "o", Call(Var(7, "A"), <<>>)),
           VarS(8, "p", Call(Var(9, "A"), <<>>)),
           ExprS(Set(Var(10, "o"), "k", N(1))),
           ExprS(Set(Var(11, "p"), "k", N(2))),
           PrintS(Get(Call(Get(Var(12, "o"), "m"), <<>>), "k")),
           PrintS(Get(Call(Get(Var(13, "p"), "m"), <<>>), "k")),
           PrintS(N(9))>>, wrap)

\* The continue statement under d levels of { if (true) { .. } }.  Every
\* level ends with post = post + 1, which a continue must skip.
RECURSIVE ContinueNest(_)
ContinueNest(d) ==
    IF d = 0 THEN ContinueS
    ELSE BlockS(<<IfS(Lit(Bool(TRUE)),
                      BlockS(<<ContinueNest(d - 1), Incr(40 + 4 * d, "post")>>), None),
                  Incr(42 + 4 * d, "post")>>)

\* var i = 0;  var post = 0;
\* while (i < k) { i = i + 1;  <ContinueNest>  post = post + 1; }
\* print i;  print post;  print 9;
ContinueProgram(d, k) ==
    <<VarS(1, "i", N(0)), VarS(2, "post", N(0)),
      WhileS(Bin("<", Var(3, "i"), N(k)),
             BlockS(<<Incr(4, "i"), ContinueNest(d), Incr(6, "post")>>)),
      PrintS(Var(8, "i")), PrintS(Var(9, "post")), PrintS(N(9))>>

\* The values the operand programs use
Operand(which) ==
    CASE which = 0 -> Nil
      [] which = 1 -> Bool(FALSE)
      [] which = 2 -> Bool(TRUE)
      [] which = 3 -> Num(1)
      [] which = 4 -> Num(0)
      [] OTHER -> Str(<<"a">>)

\* var n = 0;  var m = 0;
\* fun l() { n = n + 1; return <left>; }   fun r() { m = m + 1; return 7; }
\* print l() and r();  (or: l() or r())   print n;  print m;
LogicalProgram(left, op, wrap) ==
    Wrap(<<VarS(1, "n", N(0)), VarS(2, "m", N(0)),
           FunS(3, "l", <<>>, <<Incr(4, "n"), ReturnS(Lit(Operand(left)))>>),
           FunS(6, "r", <<>>, <<Incr(7, "m"), ReturnS(N(7))>>),
           PrintS(Logical(op, Call(Var(9, "l"), <<>>), Call(Var(10, "r"), <<>>))),
           PrintS(Var(11, "n")), PrintS(Var(12, "m"))>>, wrap)

\* print <left> <op> <right>;  print 9;
\* operands: 0  2   1  "a"   2  nil   3  true
BinOperand(which) ==
    CASE which = 0 -> Num(2)
      [] which = 1 -> Str(<<"a">>)
      [] which = 2 -> Nil
      [] OTHER -> Bool(TRUE)

BinOperators == <<"+", "-", "*", "/", "<", "<=", ">", ">=">>

BinaryProgram(op, left, right) ==
    <<PrintS(Bin(BinOperators[op], Lit(BinOperand(left)), Lit(BinOperand(right)))),
      PrintS(N(9))>>

\* fun f() {}  fun g() {}  var h = f;  class A {}  class B {}
\* var o = A();  var p = A();  var q = o;  var z = 0 / 0;
\* print <x> == <y>;  print <x> != <y>;  print 9;
\* x, y:  0 nil  1 true  2 1  3 2  4 "a"  5 "b"  6 f  7 g  8 h  9 A  10 B
\*        11 o  12 p  13 q  14 z
EqOperand(which, id) ==
    CASE which = 0 -> Lit(Nil)
      [] which = 1 -> Lit(Bool(TRUE))
      [] which = 2 -> N(1)
      [] which = 3 -> N(2)
      [] which = 4 -> Lit(Str(<<"a">>))
      [] which = 5 -> Lit(Str(<<"b">>))
      [] OTHER -> Var(id, <<"f", "g", "h", "A", "B", "o", "p", "q", "z">>[which - 5])

EqualityProgram(x, y) ==
    <<FunS(1, "f", <<>>, <<>>), FunS(2, "g", <<>>, <<>>),
      VarS(3, "h", Var(4, "f")),
      ClassS(5, "A", None, <<>>), ClassS(6, "B", None, <<>>),
      VarS(7, "o", Call(Var(8, "A"), <<>>)),
      VarS(9, "p", Call(Var(10, "A"), <<>>)),
      VarS(11, "q", Var(12, "o")),
      VarS(13, "z", Bin("/", N(0), N(0))),
      PrintS(Bin("==", EqOperand(x, 20), EqOperand(y, 21))),
      PrintS(Bin("!=", EqOperand(x, 22), EqOperand(y, 23))),
      PrintS(N(9))>>

\* fun f() {}  class A {}  var o = A();  var t = 0;
\* how 0:  if (<v>) t = 1;
\*     1:  while (<v>) { t = 1; break; }
\*     2:  if (<v> and true) t = 1;
\*     3:  if (<v> or false) t = 1;
\* print t;  print 9;
\* v:  0 nil  1 false  2 true  3 1  4 "a"  5 ""  6 f  7 clock  8 A  9 o
TruthOperand(which) ==
    CASE which = 0 -> Lit(Nil)
      [] which = 1 -> Lit(Bool(FALSE))
      [] which = 2 -> Lit(Bool(TRUE))
      [] which = 3 -> N(1)
      [] which = 4 -> Lit(Str(<<"a">>))
      [] which = 5 -> Lit(Str(<<>>))
      [] OTHER -> Var(10, <<"f", "clock", "A", "o">>[which - 5])

TruthProgram(v, how) ==
    <<FunS(1, "f", <<>>, <<>>), ClassS(2, "A", None, <<>>),
      VarS(3, "o", Call(Var(4, "A"), <<>>)), VarS(5, "t", N(0)),
      CASE how = 0 -> IfS(TruthOperand(v), ExprS(Assign(6, "t", N(1))), None)
        [] how = 1 -> WhileS(TruthOperand(v),
                             BlockS(<<ExprS(Assign(6, "t", N(1))), BreakS>>))
        [] how = 2 -> IfS(Logical("and", TruthOperand(v), Lit(Bool(TRUE))),
                          ExprS(Assign(6, "t", N(1))), None)
        [] OTHER -> IfS(Logical("or", TruthOperand(v), Lit(Bool(FALSE))),
                        ExprS(Assign(6, "t", N(1))), None),
      PrintS(Var(7, "t")), PrintS(N(9))>>

\* fun f() {}  class A {}  var o = A();  print !<v>;  print 9;
\* v as in the truth programs
NotProgram(v) ==
    <<FunS(1, "f", <<>>, <<>>), ClassS(2, "A", None, <<>>),
      VarS(3, "o", Call(Var(4, "A"), <<>>)),
      PrintS(Unary("!", TruthOperand(v))), PrintS(N(9))>>

\* var a = 5;  class A { static s(x) { return <what>; } }
\* print A.s(3);  print a;  print 9;
\* what:  0  x    1  a    2  a = 7    3  this
\* With wrap the program is inside a block, so that a and A are locals.
StaticEnvProgram(what, wrap) ==
    Wrap(<<VarS(1, "a", N(5)),
           ClassS(2, "A", None,
                  <<StaticFn(Named(3, "s"), <<Ident(4, "x")>>,
                             <<ReturnS(CASE what = 0 -> Var(5, "x")
                                         [] what = 1 -> Var(5, "a")
                                         [] what = 2 -> Assign(5, "a", N(7))
                                         [] OTHER -> This(5))>>)>>),
           PrintS(Call(Get(Var(6, "A"), "s"), <<N(3)>>)),
           PrintS(Var(7, "a")),
           PrintS(N(9))>>, wrap)

\* var c = 5;  var d = 6;  fun f() { return c; }   (return d; if which = 1)
\* class A {}  var o = A();  o.g = f;
\* print f();  print o.g();  print 9;
\* With wrap the program is inside a block, so that c and d are locals
\* captured by f.
PropertyFnProgram(which, wrap) ==
    Wrap(<<VarS(1, "c", N(5)), VarS(2, "d", N(6)),
           FunS(3, "f", <<>>, <<ReturnS(Var(4, IF which = 0 THEN "c" ELSE "d"))>>),
           ClassS(5, "A", None, <<>>),
           VarS(6, "o", Call(Var(7, "A"), <<>>)),
           ExprS(Set(Var(8, "o"), "g", Var(9, "f"))),
           PrintS(Call(Var(10, "f"), <<>>)),
           PrintS(Call(Get(Var(11, "o"), "g"), <<>>)),
           PrintS(N(9))>>, wrap)

\* var n = 0;  fun t() { n = n + 1; return n; }
\* fun f(a, b) { print a; print b; }
\* f(t(), .. k times ..);  print n;  print 9;
ArityProgram(k) ==
    <<VarS(1, "n", N(0)),
      FunS(2, "t", <<>>, <<Incr(3, "n"), ReturnS(Var(5, "n"))>>),
      FunS(6, "f", <<Ident(7, "a"), Ident(8, "b")>>,
           <<PrintS(Var(9, "a")), PrintS(Var(10, "b"))>>),
      ExprS(Call(Var(11, "f"), [i \in 1..k |-> Call(Var(11 + i, "t"), <<>>)])),
      PrintS(Var(20, "n")), PrintS(N(9))>>

\* var i = 0;  var c = 0;
\* for (i = 0; i < n; i = i + 1) { c = c + 1;  continue; }   (how = 0)
\* for (i = 0; i < n; i = i + 1) { c = c + 1; }              (how = 1)
\* print i;  print c;  print 9;
ForContinueProgram(n, how) ==
    <<VarS(1, "i", N(0)), VarS(2, "c", N(0)),
      ForS(ExprS(Assign(3, "i", N(0))),
           Bin("<", Var(4, "i"), N(n)),
           Assign(5, "i", Bin("+", Var(6, "i"), N(1))),
           BlockS(<<Incr(7, "c")>> \o (IF how = 0 THEN <<ContinueS>> ELSE <<>>))),
      PrintS(Var(9, "i")), PrintS(Var(10, "c")), PrintS(N(9))>>

Desc(tmpl, a, b, c) == [tmpl |-> tmpl, a |-> a, b |-> b, c |-> c]

Sources ==
    {Desc("ifdecl", a, 0, 0) : a \in 0..1}
    \cup {Desc("loopdecl", a, 0, 0) : a \in 0..MaxIter}
    \cup {Desc("lexical", a, 0, 0) : a \in 0..1}
    \cup {Desc("shadow", a, 0, 0) : a \in 0..1}
    \cup {Desc("counter", a, 0, 0) : a \in 0..(2 ^ MaxCalls - 1)}
    \cup {Desc("sibling", a, 0, 0) : a \in 1..MaxVal}
    \cup {Desc("break", a, b, c) : a \in 0..MaxNest, b \in 1..(MaxIter + 1), c \in 0..2}
    \cup {Desc("signal", a, 0, 0) : a \in 0..2}
    \cup {Desc("selfinit", a, 0, 0) : a \in 0..2}
    \cup {Desc("rejected", a, 0, 0) : a \in 0..1}
    \cup {Desc("return", a, b, c) : a \in 0..MaxNest, b \in 0..5, c \in 0..2}
    \cup {Desc("lookup", a, b, c) : a \in 0..7, b \in 0..1, c \in 0..1}
    \cup {Desc("static", a, b, 0) : a \in 0..7, b \in 0..1}
    \cup {Desc("undeclared", a, b, 0) : a \in 0..2, b \in 0..2}
    \cup {Desc("divzero", a, b, 0) : a \in 0..MaxVal, b \in 0..1}
    \cup {Desc("failstop", a, 0, 0) : a \in 0..3}
    \cup {Desc("init", a, b, 0) : a \in 0..3, b \in 0..1}
    \cup {Desc("this", a, b, 0) : a \in 0..2, b \in 0..1}
    \cup {Desc("continue", a, b, 0) : a \in 0..MaxNest, b \in 1..(MaxIter + 1)}
    \cup {Desc("logical", a, b, c) : a \in 0..5, b \in 0..1, c \in 0..1}
    \cup {Desc("binary", a, b, c) : a \in 1..8, b \in 0..3, c \in 0..3}
    \cup {Desc("equality", a, b, 0) : a \in 0..14, b \in 0..14}
    \cup {Desc("truth", a, b, 0) : a \in 0..9, b \in 0..3}
    \cup {Desc("not", a, 0, 0) : a \in 0..9}
    \cup {Desc("staticenv", a, b, 0) : a \in 0..3, b \in 0..1}
    \cup {Desc("propfn", a, b, 0) : a \in 0..1, b \in 0..1}
    \cup {Desc("arity", a, 0, 0) : a \in 0..MaxArgs}
    \cup {Desc("forcontinue", a, b, 0) : a \in 0..MaxIter, b \in 0..1}

Program(d) ==
    CASE d.tmpl = "ifdecl" -> IfDeclProgram(d.a)
      [] d.tmpl = "loopdecl" -> LoopDeclProgram(d.a)
      [] d.tmpl = "lexical" -> LexicalProgram(d.a)
      [] d.tmpl = "shadow" -> ShadowProgram(d.a)
      [] d.tmpl = "counter" -> CounterProgram(d.a)
      [] d.tmpl = "sibling" -> SiblingProgram(d.a)
      [] d.tmpl = "break" -> BreakProgram(d.a, d.b, d.c)
      [] d.tmpl = "signal" -> SignalProgram(d.a)
      [] d.tmpl = "selfinit" -> SelfInitProgram(d.a)
      [] d.tmpl = "rejected" -> RejectedProgram(d.a)
      [] d.tmpl = "return" -> ReturnProgram(d.a, d.b % 3, d.c, d.b \div 3)
      [] d.tmpl = "lookup" -> LookupProgram(d.a, d.b, d.c)
      [] d.tmpl = "static" -> StaticProgram(d.a, d.b)
      [] d.tmpl = "undeclared" -> UndeclaredProgram(d.a, d.b)
      [] d.tmpl = "divzero" -> DivZeroProgram(d.a, d.b)
      [] d.tmpl = "failstop" -> FailStopProgram(d.a)
      [] d.tmpl = "init" -> InitProgram(d.a, d.b)
      [] d.tmpl = "this" -> ThisProgram(d.a, d.b)
      [] d.tmpl = "continue" -> ContinueProgram(d.a, d.b)
      [] d.tmpl = "binary" -> BinaryProgram(d.a, d.b, d.c)
      [] d.tmpl = "equality" -> EqualityProgram(d.a, d.b)
      [] d.tmpl = "truth" -> TruthProgram(d.a, d.b)
      [] d.tmpl = "not" -> NotProgram(d.a)
      [] d.tmpl = "staticenv" -> StaticEnvProgram(d.a, d.b)
      [] d.tmpl = "propfn" -> PropertyFnProgram(d.a, d.b)
      [] d.tmpl = "arity" -> ArityProgram(d.a)
      [] d.tmpl = "forcontinue" -> ForContinueProgram(d.a, d.b)
      [] d.tmpl = "logical" ->
            LogicalProgram(d.a, IF d.b = 0 THEN "and" ELSE "or", d.c)

-----------------------------------------------------------------------------
(* bytecode/encoding.rs: the size encoding of the line table.  A byte is a *)
(* number in 0..255; a Vec<u8> and a byte slice are sequences of bytes.    *)
(* io::Result is a record whose err is "ok" or the io::ErrorKind.          *)

MAX_SHORT_SIZE == 127
MAX_LONG_SIZE == 32767
MSB == 128

\* a & b and a | b on unsigned integers
RECURSIVE BitAnd(_, _)
BitAnd(a, b) ==
    IF a = 0 \/ b = 0 THEN 0
    ELSE (a % 2) * (b % 2) + 2 * BitAnd(a \div 2, b \div 2)

RECURSIVE BitOr(_, _)
BitOr(a, b) ==
    IF a = 0 THEN b
    ELSE IF b = 0 THEN a
    ELSE (IF a % 2 = 1 \/ b % 2 = 1 THEN 1 ELSE 0) + 2 * BitOr(a \div 2, b \div 2)

\* n as u8; n >> 8 and n << 8 on a usize (n < 2^16 where it is shifted left)
as_u8(n) == n % 256
Shr8(n) == n \div 256
Shl8(n) == n * 256

\* encode_usize without the marker bit on the first byte of a long encoding
encode_usize_unmarked(value, writer) ==
    IF value <= MAX_SHORT_SIZE
    THEN [err |-> "ok", writer |-> writer \o <<as_u8(value)>>]
    ELSE IF value <= MAX_LONG_SIZE
    THEN [err |-> "ok",
          writer |-> writer \o <<as_u8(Shr8(value)), as_u8(BitAnd(value, 255))>>]
    ELSE [err |-> "InvalidInput", writer |-> writer]

\* encode_usize(value, writer): write_all on a Vec<u8> appends
encode_usize(value, writer) ==
    IF value <= MAX_SHORT_SIZE
    THEN [err |-> "ok", writer |-> writer \o <<as_u8(value)>>]
    ELSE IF value <= MAX_LONG_SIZE
    THEN LET high_byte == BitOr(as_u8(Shr8(value)), MSB)
             low_byte == as_u8(BitAnd(value, 255))
         IN  [err |-> "ok", writer |-> writer \o <<high_byte, low_byte>>]
    ELSE [err |-> "InvalidInput", writer |-> writer]

\* reader.read_exact(&mut [0u8]) on a byte slice: the byte and the slice left
read_exact(reader) ==
    IF reader = <<>>
    THEN [err |-> "UnexpectedEof", byte |-> 0, reader |-> reader]
    ELSE [err |-> "ok", byte |-> Head(reader), reader |-> Tail(reader)]

\* decode_usize(reader): the value and the slice left to read
decode_usize(reader) ==
    LET first_byte == read_exact(reader)
    IN  IF first_byte.err # "ok"
        THEN [err |-> first_byte.err, value |-> 0, reader |-> first_byte.reader]
        ELSE IF BitAnd(first_byte.byte, MSB) = 0
        THEN [err |-> "ok", value |-> first_byte.byte, reader |-> first_byte.reader]
        ELSE LET second_byte == read_exact(first_byte.reader)
             IN  IF second_byte.err # "ok"
                 THEN [err |-> second_byte.err, value |-> 0,
                       reader |-> second_byte.reader]
                 ELSE LET high_part == BitAnd(first_byte.byte, 127)
                          low_part == second_byte.byte
                      IN  [err |-> "ok",
                           value |-> BitOr(Shl8(high_part), low_part),
                           reader |-> second_byte.reader]

\* SizeEncodedVec::new
SizeEncodedVec_new == [sizes |-> <<>>, tail |-> 0]

\* SizeEncodedVec::push: a failed write is rolled back by truncate(start_len)
SizeEncodedVec_push(vec, value) ==
    LET start_len == Len(vec.sizes)
        e == encode_usize(value, vec.sizes)
    IN  IF e.err # "ok"
        THEN [err |-> e.err, value |-> 0,
              vec |-> [vec EXCEPT !.sizes = SubSeq(e.writer, 1, start_len)]]
        ELSE [err |-> "ok", value |-> 0,
              vec |-> [sizes |-> e.writer, tail |-> start_len]]

\* SizeEncodedVec::shift: None on an empty vector; the bytes that the
\* decoder consumed are drained and the tail moves down by their number
SizeEncodedVec_shift(vec) ==
    IF vec.sizes = <<>> THEN [err |-> "None", value |-> 0, vec |-> vec]
    ELSE LET d == decode_usize(vec.sizes)
         IN  IF d.err # "ok" THEN [err |-> d.err, value |-> 0, vec |-> vec]
             ELSE LET consumed == Len(vec.sizes) - Len(d.reader)
                      rest == SubSeq(vec.sizes, consumed + 1, Len(vec.sizes))
                  IN  IF rest # <<>> /\ vec.tail < consumed
                      THEN [err |-> "overflow", value |-> d.value,
                            vec |-> [sizes |-> rest, tail |-> vec.tail]]
                      ELSE [err |-> "ok", value |-> d.value,
                            vec |-> [sizes |-> rest,
                                     tail |-> IF rest = <<>> THEN 0
                                              ELSE vec.tail - consumed]]

\* SizeEncodedVec::peek_last: decodes from the tail index
SizeEncodedVec_peek_last(vec) ==
    IF vec.sizes = <<>> THEN [err |-> "None", value |-> 0, vec |-> vec]
    ELSE LET d == decode_usize(SubSeq(vec.sizes, vec.tail + 1, Len(vec.sizes)))
         IN  [err |-> d.err, value |-> d.value, vec |-> vec]

\* no call made yet; held is the sequence of the values pushed and not yet
\* shifted
NoCode == [op |-> "none", arg |-> 0, err |-> "ok", value |-> 0,
           before |-> SizeEncodedVec_new, was |-> <<>>, held |-> <<>>]

-----------------------------------------------------------------------------
(* The driver.  main (main.rs) parses, stops if the parser had errors, and *)
(* otherwise builds a Lox and interprets the statements.  The resolver     *)
(* pass is the step the specification puts between the two.                *)

NoCall == [called |-> FALSE, name |-> "", err |-> FALSE, depth |-> 0,
           had |-> FALSE, free |-> 0, top |-> {}, shadows |-> FALSE]

Init ==
    /\ src \in Sources
    /\ phase = "start"
    /\ parser = Parser_new(<<>>)
    /\ ast = <<>>
    /\ rtodo = <<>>
    /\ binding = EmptyMap
    /\ resolved = "none"
    /\ lox = Lox_new
    /\ callstack = <<>>
    /\ ctl = Idle
    /\ pc = 1
    /\ result = Obj(Nil)
    /\ rscopes = Resolver_new
    /\ rlast = NoCall
    /\ encvec = SizeEncodedVec_new
    /\ elast = NoCode

\* let mut parser = Parser::new(&INPUT)
NewParser ==
    /\ phase = "start"
    /\ parser' = Parser_new(Program(src))
    /\ phase' = "parsing"
    /\ UNCHANGED <<src, ast, rtodo, binding, resolved, lox, callstack, ctl, pc,
                   result, rscopes, rlast, encvec, elast>>

\* parser.parse(): one call or return of a parsing function
Parse ==
    /\ phase = "parsing"
    /\ parser.todo # <<>>
    /\ parser' = Parser_step(parser)
    /\ UNCHANGED <<src, phase, ast, rtodo, binding, resolved, lox, callstack, ctl,
                   pc, result, rscopes, rlast, encvec, elast>>

\* if parser.had_errors() { return; }  ..  parser.take_statements()
HadErrors ==
    /\ phase = "parsing"
    /\ parser.todo = <<>>
    /\ IF had_errors(parser)
       THEN phase' = "rejected" /\ ast' = ast
       ELSE phase' = "parsed" /\ ast' = take_statements(parser)
    /\ UNCHANGED <<src, parser, rtodo, binding, resolved, lox, callstack, ctl, pc,
                   result, rscopes, rlast, encvec, elast>>

\* The resolver pass begins: a fresh Resolver, every statement to visit
RunResolver ==
    /\ phase = "parsed"
    /\ resolved = "none"
    /\ phase' = "resolving"
    /\ rscopes' = Resolver_new
    /\ rtodo' = Each("accept", ast)
    /\ UNCHANGED <<src, parser, ast, binding, resolved, lox, callstack, ctl, pc,
                   result, rlast, encvec, elast>>

\* One call of the resolver pass
Resolve ==
    /\ phase = "resolving"
    /\ ~rscopes.err
    /\ rtodo # <<>>
    /\ LET done == Resolver_step(rscopes, rtodo)
       IN  /\ rscopes' = done.rs
           /\ rtodo' = done.tasks
    /\ UNCHANGED <<src, phase, parser, ast, binding, resolved, lox, callstack, ctl,
                   pc, result, rlast, encvec, elast>>

\* The resolver pass ends, with the first Err or after the last statement;
\* an error ends the run.
Resolved ==
    /\ phase = "resolving"
    /\ rscopes.err \/ rtodo = <<>>
    /\ binding' = rscopes.cells
    /\ resolved' = IF rscopes.err THEN "err" ELSE "ok"
    /\ phase' = IF rscopes.err THEN "stopped" ELSE "parsed"
    /\ UNCHANGED <<src, parser, ast, rtodo, lox, callstack, ctl, pc, result,
                   rscopes, rlast, encvec, elast>>

\* let mut lox = Lox::new(); lox.interpret(parser.take_statements()), in
\* either of the two evaluators the repository holds
Interpret ==
    /\ phase = "parsed"
    /\ phase' = "run"
    /\ \E build \in Builds : lox' = [Lox_new EXCEPT !.build = build]
    /\ pc' = 1
    /\ UNCHANGED <<src, parser, ast, rtodo, binding, resolved, callstack, ctl,
                   result, rscopes, rlast, encvec, elast>>

\* The loop of Lox::interpret: stmt.accept(self) on the next statement
InterpretStmt ==
    /\ phase = "run"
    /\ ctl.m = "idle"
    /\ pc <= Len(ast)
    /\ ctl' = Enter(lox, callstack, ast[pc]).ctl
    /\ UNCHANGED <<src, phase, parser, ast, rtodo, binding, resolved, lox,
                   callstack, pc, result, rscopes, rlast, encvec, elast>>

\* node.accept(self): the visit method of the node begins
LoxAccept ==
    /\ ctl.m = "accept"
    /\ LET next == IF IsExpr(ctl.node) THEN Lox_expr(lox, callstack, ctl.node)
                   ELSE Lox_stmt(lox, callstack, ctl.node)
       IN  /\ lox' = next.st
           /\ callstack' = next.kont
           /\ ctl' = next.ctl
    /\ UNCHANGED <<src, phase, parser, ast, rtodo, binding, resolved, pc,
                   result, rscopes, rlast, encvec, elast>>

\* A visit method returns to the method that called accept
LoxReturn ==
    /\ ctl.m = "return"
    /\ callstack # <<>>
    /\ LET next == Lox_resume(lox, callstack, ctl.r)
       IN  /\ lox' = next.st
           /\ callstack' = next.kont
           /\ ctl' = next.ctl
    /\ UNCHANGED <<src, phase, parser, ast, rtodo, binding, resolved, pc,
                   result, rscopes, rlast, encvec, elast>>

\* The loop of Lox::interpret going on to the next statement after an error
InterpretResult_isolated ==
    /\ ctl.m = "return"
    /\ callstack = <<>>
    /\ result' = ctl.r
    /\ ctl' = Idle
    /\ phase' = IF pc = Len(ast) THEN "done" ELSE "run"
    /\ pc' = pc + 1
    /\ UNCHANGED <<src, parser, ast, rtodo, binding, resolved, lox, callstack,
                   rscopes, rlast, encvec, elast>>

\* The loop of Lox::interpret with the result of the statement: `?`
InterpretResult ==
    /\ ctl.m = "return"
    /\ callstack = <<>>
    /\ result' = ctl.r
    /\ ctl' = Idle
    /\ IF Failed(ctl.r)
       THEN /\ phase' = IF ctl.r.c = "panic" THEN "panicked" ELSE "failed"
            /\ pc' = pc
       ELSE /\ phase' = IF pc = Len(ast) THEN "done" ELSE "run"
            /\ pc' = pc + 1
    /\ UNCHANGED <<src, parser, ast, rtodo, binding, resolved, lox, callstack,
                   rscopes, rlast, encvec, elast>>

Next ==
    \/ NewParser \/ Parse \/ HadErrors
    \/ RunResolver \/ Resolve \/ Resolved
    \/ Interpret \/ InterpretStmt \/ LoxAccept \/ LoxReturn \/ InterpretResult

Spec == Init /\ [][Next]_vars

-----------------------------------------------------------------------------
(* A Resolver on its own: any sequence of scope operations, as the visit   *)
(* methods issue them, on a stack of at most MaxScopes scopes.             *)

MaxScopes == 2
Names == {"a", "b"}

Innermost(rs) == rs.scopes[Len(rs.scopes)]

RInit ==
    /\ src = Desc("shadow", 0, 0, 0)
    /\ phase = "start"
    /\ parser = Parser_new(<<>>)
    /\ ast = <<>>
    /\ rtodo = <<>>
    /\ binding = EmptyMap
    /\ resolved = "none"
    /\ lox = Lox_new
    /\ callstack = <<>>
    /\ ctl = Idle
    /\ pc = 1
    /\ result = Obj(Nil)
    /\ rscopes = Resolver_new
    /\ rlast = NoCall
    /\ encvec = SizeEncodedVec_new
    /\ elast = NoCode

\* begin_scope, as a block or a function body does
R_begin_scope ==
    /\ Len(rscopes.scopes) < MaxScopes
    /\ rscopes' = begin_scope(rscopes)
    /\ rlast' = [NoCall EXCEPT !.top = rlast.top]
    /\ UNCHANGED <<src, phase, parser, ast, rtodo, binding, resolved, lox, callstack,
                   ctl, pc, result, encvec, elast>>

\* begin_scope followed by put_str("this"), as visit_class_statement does
R_begin_this_scope ==
    /\ Len(rscopes.scopes) < MaxScopes
    /\ rscopes' = put_str(begin_scope(rscopes), "this")
    /\ rlast' = [NoCall EXCEPT !.top = rlast.top]
    /\ UNCHANGED <<src, phase, parser, ast, rtodo, binding, resolved, lox, callstack,
                   ctl, pc, result, encvec, elast>>

R_end_scope ==
    /\ Len(rscopes.scopes) > 0
    /\ rscopes' = end_scope(rscopes)
    /\ rlast' = [NoCall EXCEPT !.top = rlast.top]
    /\ UNCHANGED <<src, phase, parser, ast, rtodo, binding, resolved, lox, callstack,
                   ctl, pc, result, encvec, elast>>

\* declare(name); rlast records the call: the depth of the stack, whether
\* the current scope (at depth 0: the top level) already had the name, the
\* number of names of the current scope, and the outcome.
R_declare ==
    \E name \in Names :
        LET n == Len(rscopes.scopes)
            r1 == Resolver_declare(rscopes, Ident(0, name))
        IN  /\ rscopes' = [r1 EXCEPT !.err = FALSE]
            /\ rlast' = [called |-> TRUE, name |-> name, err |-> r1.err,
                         depth |-> n,
                         had |-> IF n = 0 THEN name \in rlast.top
                                 ELSE name \in DOMAIN Innermost(rscopes),
                         free |-> IF n = 0 THEN 0
                                  ELSE Cardinality(DOMAIN Innermost(rscopes)),
                         top |-> IF n = 0 THEN rlast.top \cup {name} ELSE rlast.top,
                         shadows |-> \E i \in 1..(n - 1) : name \in DOMAIN rscopes.scopes[i]]
            /\ UNCHANGED <<src, phase, parser, ast, rtodo, binding, resolved, lox, callstack,
                   ctl, pc, result, encvec, elast>>

R_define ==
    \E name \in Names :
        /\ rscopes' = [Resolver_define(rscopes, Ident(0, name)) EXCEPT !.cells = EmptyMap]
        /\ rlast' = [NoCall EXCEPT !.top = rlast.top]
        /\ UNCHANGED <<src, phase, parser, ast, rtodo, binding, resolved, lox, callstack,
                   ctl, pc, result, encvec, elast>>

RNext == R_begin_scope \/ R_begin_this_scope \/ R_end_scope \/ R_declare \/ R_define

SpecResolver == RInit /\ [][RNext]_vars

-----------------------------------------------------------------------------
(* A SizeEncodedVec on its own: any sequence of push, shift and peek_last  *)
(* on a vector of at most MaxBytes bytes.  The first value a run pushes is *)
(* any size up to MaxSize, or 0x1_0000, drawn by EInit into elast.arg; the *)
(* values pushed later are the ends of the one-byte and two-byte ranges.   *)

MaxSize == 32770
MaxBytes == 4
Following == {127, 128, 32768}

EncInputs(last) ==
    IF last.op = "none" THEN {last.arg} ELSE Following

EInit ==
    /\ src = Desc("shadow", 0, 0, 0)
    /\ phase = "start"
    /\ parser = Parser_new(<<>>)
    /\ ast = <<>>
    /\ rtodo = <<>>
    /\ binding = EmptyMap
    /\ resolved = "none"
    /\ lox = Lox_new
    /\ callstack = <<>>
    /\ ctl = Idle
    /\ pc = 1
    /\ result = Obj(Nil)
    /\ rscopes = Resolver_new
    /\ rlast = NoCall
    /\ encvec = SizeEncodedVec_new
    /\ elast \in {[NoCode EXCEPT !.arg = v] : v \in (0..MaxSize) \cup {65536}}

E_push ==
    /\ Len(encvec.sizes) + 2 <= MaxBytes
    /\ \E value \in EncInputs(elast) :
          LET r == SizeEncodedVec_push(encvec, value)
          IN  /\ encvec' = r.vec
              /\ elast' = [op |-> "push", arg |-> value, err |-> r.err,
                           value |-> r.value, before |-> encvec,
                           was |-> elast.held,
                           held |-> IF r.err = "ok" THEN Append(elast.held, value)
                                    ELSE elast.held]
    /\ UNCHANGED <<src, phase, parser, ast, rtodo, binding, resolved, lox, callstack,
                   ctl, pc, result, rscopes, rlast>>

E_shift ==
    LET r == SizeEncodedVec_shift(encvec)
    IN  /\ encvec' = r.vec
        /\ elast' = [op |-> "shift", arg |-> 0, err |-> r.err, value |-> r.value,
                     before |-> encvec, was |-> elast.held,
                     held |-> IF r.err = "ok" THEN Tail(elast.held) ELSE elast.held]
        /\ UNCHANGED <<src, phase, parser, ast, rtodo, binding, resolved, lox,
                       callstack, ctl, pc, result, rscopes, rlast>>

E_peek_last ==
    LET r == SizeEncodedVec_peek_last(encvec)
    IN  /\ encvec' = r.vec
        /\ elast' = [op |-> "peek_last", arg |-> 0, err |-> r.err, value |-> r.value,
                     before |-> encvec, was |-> elast.held, held |-> elast.held]
        /\ UNCHANGED <<src, phase, parser, ast, rtodo, binding, resolved, lox,
                       callstack, ctl, pc, result, rscopes, rlast>>

ENext == E_push \/ E_shift \/ E_peek_last

SpecEncoding == EInit /\ [][ENext]_vars

-----------------------------------------------------------------------------
(* Properties.                                                             *)

Evaluating == phase \in {"run", "done", "failed", "panicked"}
Crashed == phase \in {"failed", "panicked"}
IsPrefix(s, t) == Len(s) <= Len(t) /\ \A i \in 1..Len(s) : s[i] = t[i]

\* C1 (as claimed): after a successful resolver pass, every evaluation of a
\* resolved identifier finds, depth frames up, a frame with more than slot
\* values (no out-of-range access), and the slot is the one made by the
\* declaration the resolver matched, whichever declarations were executed.
C1_SlotsCorrespond ==
    resolved = "ok" => (phase # "panicked" /\ lox.misread = {})

C3_SignalsConsumed ==
    /\ \A i \in 1..Len(lox.callres) : lox.callres[i] \notin {"break", "continue"}
    /\ result.c \notin {"break", "continue", "return"}

\* C4 (as claimed): whenever the evaluator has started, the resolver pass
\* has completed without error.
C4_ResolverFirst ==
    Evaluating => resolved = "ok"

\* C5 (as claimed): the resolver pass over a program holding var a = a;
\* never succeeds, wherever the declaration stands, and the program is
\* never evaluated.
C5_SelfInitRejected ==
    src.tmpl = "selfinit" => (resolved # "ok" /\ ~Evaluating)

\* C6 (as claimed): declare returns an error exactly when the name is
\* already declared in the current scope, the top level included.
C6_DeclareEveryScope ==
    rlast.called => (rlast.err <=> rlast.had)

\* C6 (amended): inside a block, function or class scope, declare returns
\* an error exactly when the innermost scope holds the name, a name held
\* only by an enclosing scope does not matter, and on success the name gets
\* slot number (names already in the scope), which no other name of the
\* scope has, marked not yet defined; with no scope open declare never
\* fails and records nothing.
C6_DeclareInnermost ==
    rlast.called =>
        IF rlast.depth = 0
        THEN ~rlast.err /\ rscopes.scopes = <<>>
        ELSE /\ rlast.err <=> rlast.had
             /\ ~rlast.err =>
                   LET scope == Innermost(rscopes)
                   IN  /\ rlast.name \in DOMAIN scope
                       /\ scope[rlast.name].slot = rlast.free
                       /\ ~scope[rlast.name].defined
                       /\ \A other \in DOMAIN scope \ {rlast.name} :
                             scope[other].slot # scope[rlast.name].slot

\* C6 witness: a name held by the enclosing scope only has been declared
\* in the inner scope, successfully, after another name
C6_Witness ==
    /\ rlast.called /\ ~rlast.err /\ rlast.depth = 2
    /\ rlast.shadows /\ rlast.free = 1

OwnCalls(pattern, j) ==
    Cardinality({i \in 1..j : Picks(pattern, i) = Picks(pattern, j)})

BreakAt(k) == IF k <= MaxIter THEN k ELSE MaxIter + 1
BreakOutput(d, k, shape) ==
    IF shape = 0
    THEN <<Num(BreakAt(k)), Num((BreakAt(k) - 1) * (2 * d + 1))>>
    ELSE <<Num(BreakAt(k)), Num(2 * (BreakAt(k) - 1) * (2 * d + 1)), Num(3), Num(2)>>

\* C10: a break under any nesting of blocks and ifs ends the nearest
\* while-loop only: e, counted by the loop condition, stays at the value
\* it had at the break (no further evaluation of the condition), post has
\* been incremented in the completed iterations only, the loop statement
\* yields nil, and the outer loop completes both of its iterations.
C10_BreakNearestLoop ==
    src.tmpl = "break" =>
        /\ ~Crashed
        /\ IsPrefix(lox.out, BreakOutput(src.a, src.b, src.c))
        /\ (phase = "done" => Len(lox.out) = Len(BreakOutput(src.a, src.b, src.c)))
        /\ (src.c = 0 /\ Evaluating /\ pc = 4 => result = Obj(Nil))

\* C10 witness: a break at the deepest nesting, in an iteration before the
\* last, inside an outer loop, every variable a local
C10_Witness ==
    /\ src.tmpl = "break" /\ src.a = MaxNest /\ src.b = 1 /\ src.c = 2
    /\ resolved = "ok" /\ phase = "done"
    /\ Len(lox.out) = 4

\* What a return program prints when the return ends the call at once
ReturnOutput(how) ==
    CASE how = 0 -> <<Num(5), Num(0), Num(1)>>
      [] how = 1 -> <<Nil, Num(0), Num(1)>>
      [] OTHER -> <<Nil, Num(1), Num(1)>>

\* C11: a return under any nesting of blocks, ifs and while loops of a
\* function body ends the call at once: no statement after it at any level
\* runs (post stays 0), the call yields the returned value as a plain value
\* (nil for a bare return and for a body without return), and the
\* statements after the call are executed.
C11_ReturnEndsCall ==
    src.tmpl = "return" =>
        /\ ~Crashed
        /\ IsPrefix(lox.out, ReturnOutput(src.c))
        /\ phase = "done" => lox.out = ReturnOutput(src.c)
        /\ \A i \in 1..Len(lox.callres) : lox.callres[i] = "obj"

\* the return sits under MaxNest levels (block, if, while) of a local function
C11_Witness ==
    /\ src.tmpl = "return" /\ src.a = MaxNest /\ src.b = 3 /\ src.c = 0
    /\ resolved = "ok" /\ phase = "done"
    /\ lox.out = <<Num(5), Num(0), Num(1)>>

\* What a lookup program prints: the property if the instance has one, else
\* the m of the nearest class of the chain C, B, A that defines it
LookupOutput(mask, prop) ==
    <<IF prop = 1 THEN Num(0)
      ELSE IF Has(mask, 2) THEN Num(3)
      ELSE IF Has(mask, 1) THEN Num(2)
      ELSE Num(1),
      Num(9)>>

C13_StaticOwnOnly ==
    src.tmpl = "static" =>
        /\ phase # "panicked"
        /\ IF src.a \in {0, 1}
           THEN /\ phase # "failed"
                /\ IsPrefix(lox.out, <<Num(IF src.a = 0 THEN 1 ELSE 3), Num(9)>>)
                /\ phase = "done" =>
                       lox.out = <<Num(IF src.a = 0 THEN 1 ELSE 3), Num(9)>>
           ELSE /\ lox.out = <<>>
                /\ phase # "done"
                /\ phase = "failed" => result = ErrReference

\* B.s, with s a static method of B's superclass A, has failed
C13_Witness ==
    /\ src.tmpl = "static" /\ src.a = 6
    /\ phase = "failed" /\ result = ErrReference
    /\ Len(lox.classes) = 2
    /\ "s" \in DOMAIN lox.classes[lox.classes[2].super_class].statics

\* C14: reading, calling or assigning to a name that is not in the global
\* table fails with ReferenceError: the run never goes past the use (no
\* silent nil: print 2 is never reached), and the global table is left as it
\* was (u is never created; g keeps its value).
C14_UndeclaredGlobal ==
    src.tmpl = "undeclared" =>
        /\ phase # "panicked" /\ phase # "done"
        /\ IsPrefix(lox.out, <<Num(1)>>)
        /\ Evaluating => "u" \notin DOMAIN lox.globals
        /\ phase = "failed" =>
               /\ result = ErrReference
               /\ lox.out = <<Num(1)>>
               /\ DOMAIN lox.globals \ {"f"} = DOMAIN Lox_new.globals \cup {"g"}
               /\ lox.globals["g"] = Num(1)

\* the assignment u = 1 in the body of a called function has failed
C14_Witness ==
    /\ src.tmpl = "undeclared" /\ src.a = 2 /\ src.b = 2
    /\ phase = "failed" /\ result = ErrReference
    /\ "f" \in DOMAIN lox.globals /\ "u" \notin DOMAIN lox.globals

\* C15 (as claimed): a / b with numbers a and b = 0 evaluates to a typed
\* error: the division yields no value (nothing is printed, the run does
\* not complete), and the interpreter does not crash.
C15_DivisionByZeroIsError ==
    src.tmpl = "divzero" =>
        /\ phase # "panicked"
        /\ lox.out = <<>>
        /\ phase # "done"

\* C15 (the code): the division is the f64 division, so a / 0 is a number
\* (+inf, -inf or NaN by the sign of a), is printed, and the run goes on.
C15_DivisionByZeroIsNumber ==
    src.tmpl = "divzero" =>
        /\ ~Crashed
        /\ LET a == IF src.b = 1 THEN 0 - src.a ELSE src.a
               q == NonFinite(IF a > 0 THEN 1 ELSE IF a < 0 THEN -1 ELSE 0)
           IN  /\ IsPrefix(lox.out, <<q, Num(2)>>)
               /\ phase = "done" => lox.out = <<q, Num(2)>>

\* C16: when a top-level statement fails, interpret returns that error at
\* once: the statements after it are never evaluated (2 is not printed, h
\* is not defined, the run does not complete), and what ran before the
\* failure stays (1 was printed, g is defined, f too in program 3).
C16_FailureHaltsRun ==
    src.tmpl = "failstop" =>
        /\ phase # "panicked" /\ phase # "done"
        /\ IsPrefix(lox.out, <<Num(1)>>)
        /\ Evaluating => "h" \notin DOMAIN lox.globals
        /\ phase = "failed" =>
               /\ result = (CASE src.a \in {0, 3} -> ErrReference
                               [] src.a = 1 -> binary_op_error(RightSide)
                               [] OTHER -> ErrType)
               /\ pc = Len(ast) - 2
               /\ lox.out = <<Num(1)>>
               /\ "g" \in DOMAIN lox.globals /\ lox.globals["g"] = Num(1)
               /\ src.a = 3 => "f" \in DOMAIN lox.globals

\* the call of f has failed inside f's body; print 2 and var h were not run
C16_Witness ==
    /\ src.tmpl = "failstop" /\ src.a = 3
    /\ phase = "failed" /\ result = ErrReference
    /\ pc = 4 /\ Len(ast) = 6
    /\ lox.out = <<Num(1)>>

\* What an init program prints when every initializer of the chain runs
InitOutput(which) ==
    IF which = 2 THEN <<Num(3), Num(9)>> ELSE <<Num(2), Num(3), Num(9)>>

\* C17 (as claimed): calling a class makes a new instance without
\* properties; an initializer of the class or of an ancestor runs once,
\* bound to the instance, with the call's arguments (it prints 2); its
\* return value is dropped and the call yields the instance (o.p can be set
\* and read); an error of the initializer ends the run.  Stated for the
\* runs in which the resolver pass has given the parameter x its address.
C17_InitializerRuns ==
    src.tmpl = "init" /\ resolved = "ok" =>
        /\ phase # "panicked"
        /\ IF src.a = 3
           THEN /\ lox.out = <<>> /\ phase # "done"
                /\ phase = "failed" => result = ErrReference
           ELSE /\ phase # "failed"
                /\ IsPrefix(lox.out, InitOutput(src.a))
                /\ phase = "done" =>
                       /\ lox.out = InitOutput(src.a)
                       /\ Len(lox.insts) = 1
                       /\ DOMAIN lox.insts[1].properties = {"p"}
                       /\ src.a # 2 =>
                              /\ Len(lox.binds) = 1
                              /\ lox.binds[1].target = InstVal(1)

\* C17 (the code): as claimed when the class called defines init itself; an
\* init of an ancestor only is not run (B(2) prints no 2 and binds nothing).
C17_OwnInitializerOnly ==
    src.tmpl = "init" /\ resolved = "ok" =>
        /\ phase # "panicked"
        /\ IF src.a = 3
           THEN /\ lox.out = <<>> /\ phase # "done"
                /\ phase = "failed" => result = ErrReference
           ELSE /\ phase # "failed"
                /\ IsPrefix(lox.out, InitOutput(IF src.a = 1 THEN 2 ELSE src.a))
                /\ phase = "done" =>
                       /\ lox.out = InitOutput(IF src.a = 1 THEN 2 ELSE src.a)
                       /\ Len(lox.insts) = 1
                       /\ DOMAIN lox.insts[1].properties = {"p"}
                       /\ Len(lox.binds) = (IF src.a = 0 THEN 1 ELSE 0)
                       /\ src.a = 0 => lox.binds[1].target = InstVal(1)

\* Every access instance.method so far has built a new closure: a function
\* of its own over a frame of its own, a child of the method's closure
\* frame holding only `this` = the instance, in slot 0, with the method's
\* parameters and body; and the class's method table still holds the
\* method as it was declared.
BoundFresh ==
    /\ \A i \in 1..Len(lox.binds) :
           LET b == lox.binds[i]
               frame == lox.frames[b.frame]
           IN  /\ b.bound # b.of
               /\ lox.fns[b.bound].closure = b.frame
               /\ lox.fns[b.bound].params = lox.fns[b.of].params
               /\ lox.fns[b.bound].body = lox.fns[b.of].body
               /\ frame.parent = lox.fns[b.of].closure
               /\ DOMAIN frame.slots = {"this"} /\ frame.slots["this"] = 0
               /\ frame.values[1] = b.target
               /\ \A j \in 1..Len(lox.binds) :
                      j # i => /\ lox.binds[j].bound # b.bound
                               /\ lox.binds[j].frame # b.frame
    /\ \A c \in 1..Len(lox.classes) :
           \A n \in DOMAIN lox.classes[c].methods :
               LET f == lox.fns[lox.classes[c].methods[n]]
               IN  "this" \notin DOMAIN lox.frames[f.closure].slots

\* C18 (as claimed): in a method reached through instance.method, `this`
\* in the body, in its nested blocks and in a closure made inside it is the
\* instance the method was accessed on (o.m().k is 1, p.m().k is 2), and
\* each access builds a new closure over a new child frame whose slot 0 is
\* `this`, leaving the class's method as it was.
C18_ThisIsInstance ==
    src.tmpl = "this" =>
        /\ ~Crashed
        /\ IsPrefix(lox.out, <<Num(1), Num(2), Num(9)>>)
        /\ phase = "done" => lox.out = <<Num(1), Num(2), Num(9)>> /\ Len(lox.binds) = 2
        /\ BoundFresh

\* C18 (the code): the same holds in the runs in which the resolver pass
\* has given `this` its address; the binding part holds in every run.
C18_ThisAfterResolver ==
    src.tmpl = "this" =>
        /\ BoundFresh
        /\ resolved = "ok" =>
               /\ ~Crashed
               /\ IsPrefix(lox.out, <<Num(1), Num(2), Num(9)>>)
               /\ phase = "done" =>
                      lox.out = <<Num(1), Num(2), Num(9)>> /\ Len(lox.binds) = 2
        /\ resolved # "ok" =>
               /\ lox.out = <<>> /\ phase \notin {"done", "panicked"}
               /\ phase = "failed" => result = ErrReference

\* C19 (as claimed): a continue written in a while body ends only the
\* current iteration: the rest of the body is skipped (post stays 0), the
\* condition is evaluated again and the loop goes on while it is truthy
\* (i reaches k), and the statements after the loop run.
C19_ContinueNextIteration ==
    src.tmpl = "continue" =>
        /\ ~Crashed
        /\ IsPrefix(lox.out, <<Num(src.b), Num(0), Num(9)>>)
        /\ phase = "done" => lox.out = <<Num(src.b), Num(0), Num(9)>>

\* C19 (the code): the parser builds a Break for the continue statement, so
\* the first continue executed ends the loop (i stays 1).
C19_ContinueEndsLoop ==
    src.tmpl = "continue" =>
        /\ ~Crashed
        /\ IsPrefix(lox.out, <<Num(1), Num(0), Num(9)>>)
        /\ phase = "done" => lox.out = <<Num(1), Num(0), Num(9)>>
        /\ \A i \in 1..Len(ast) : ast[i].t = "while" => ast[i].body.stmts[2].t # "continue"

\* A block statement or a closure call returns to its caller
ScopeExit ==
    /\ LoxReturn
    /\ ctl.r.c # "panic"
    /\ callstack[Len(callstack)].f \in {"visit_block_statement", "call_fn"}
    /\ Len(callstack') < Len(callstack)

\* C20 (as claimed): when a block statement or a closure call returns, by
\* normal completion, with a control signal or with a runtime error, the
\* evaluator's current frame is the frame that was current when the block
\* or call began.
C20_FrameRestored ==
    [][ScopeExit => lox'.cur = callstack[Len(callstack)].scope]_vars

\* C20 (the code): the frame is restored on every exit of a closure call
\* and on every exit of a block in lox/visitor.rs; the block of lox.rs
\* returns a runtime error with the frame of the failing block still current.
C20_FrameRestoredButLoxRs ==
    [][ScopeExit =>
           IF /\ lox.build = "lox.rs"
              /\ callstack[Len(callstack)].f = "visit_block_statement"
              /\ Failed(ctl.r)
           THEN lox'.cur = lox.cur /\ lox.cur # callstack[Len(callstack)].scope
           ELSE lox'.cur = callstack[Len(callstack)].scope]_vars

\* The left operand decides the operation: falsy for and (b = 0), truthy
\* for or (b = 1).  nil, false and, in this implementation, 0 are falsy.
Decides(left, b) == IF b = 0 THEN left \in {0, 1, 4} ELSE left \notin {0, 1, 4}

LogicalOutput(left, b) ==
    IF Decides(left, b) THEN <<Operand(left), Num(1), Num(0)>>
    ELSE <<Num(7), Num(1), Num(1)>>

\* C21: and / or evaluate the left operand once (n is 1); when it decides
\* the operation it is the result and the right operand is not evaluated
\* (m stays 0, r is never called); otherwise the right operand is evaluated
\* once (m is 1) and its value is the result.
C21_ShortCircuit ==
    src.tmpl = "logical" =>
        /\ ~Crashed
        /\ IsPrefix(lox.out, LogicalOutput(src.a, src.b))
        /\ phase = "done" => lox.out = LogicalOutput(src.a, src.b)
        /\ Len(lox.calls) <= (IF Decides(src.a, src.b) THEN 1 ELSE 2)

\* nil and r(): the result is nil, l ran once, r did not run
C21_Witness ==
    /\ src.tmpl = "logical" /\ src.a = 0 /\ src.b = 0
    /\ phase = "done"
    /\ lox.out = <<Nil, Num(1), Num(0)>>
    /\ Len(lox.calls) = 1

\* 2 <op> 2 for the operators of BinOperators, in their order
TwoOpTwo == <<Num(4), Num(0), Num(4), Num(1),
              Bool(FALSE), Bool(TRUE), Bool(FALSE), Bool(TRUE)>>

\* What a binary program must give: a value, or the TypeError of the side
BinaryExpected(op, left, right) ==
    IF left = 0 /\ right = 0 THEN Obj(TwoOpTwo[op])
    ELSE IF op = 1
         THEN IF left = 1 /\ right = 1 THEN Obj(Str(<<"a", "a">>))
              ELSE binary_op_error(InvalidTypes)
    ELSE IF left # 0 THEN binary_op_error(LeftSide)
    ELSE binary_op_error(RightSide)

\* C22: -, *, /, <, <=, >, >= with a non-numeric operand fail with a
\* TypeError naming the failing side, the left one when both are
\* non-numeric; + adds two numbers, concatenates two strings and is a
\* TypeError for every other combination.
C22_OperandTypes ==
    src.tmpl = "binary" =>
        LET want == BinaryExpected(src.a, src.b, src.c)
        IN  /\ phase # "panicked"
            /\ IF Failed(want)
               THEN /\ lox.out = <<>> /\ phase # "done"
                    /\ phase = "failed" =>
                           result = want /\ result.val.k = "TypeError"
               ELSE /\ phase # "failed"
                    /\ IsPrefix(lox.out, <<want.val, Num(9)>>)
                    /\ phase = "done" => lox.out = <<want.val, Num(9)>>

\* "a" - nil has failed, with the error of the left side
C22_Witness ==
    /\ src.tmpl = "binary" /\ src.a = 2 /\ src.b = 1 /\ src.c = 2
    /\ phase = "failed"
    /\ result = binary_op_error(LeftSide)

\* The value an operand of an equality program names: h is the closure f,
\* q is the instance o; every other operand is a value of its own.  z is
\* NaN, which as an f64 equals nothing, itself included.
SameValue(x, y) ==
    LET key(i) == CASE i = 8 -> 6 [] i = 13 -> 11 [] OTHER -> i
    IN  key(x) = key(y) /\ x # 14

\* C23: == and != give a boolean for every pair of values and never an
\* error: primitives are equal when they are the same value, closures,
\* classes and instances when they are the same object (f and g, made from
\* the same source, are not; o and p, two instances of A, are not), values
\* of different kinds never, and != is the negation of ==.
C23_EqualityTotal ==
    src.tmpl = "equality" =>
        LET eq == Bool(SameValue(src.a, src.b))
            ne == Bool(~SameValue(src.a, src.b))
        IN  /\ ~Crashed
            /\ IsPrefix(lox.out, <<eq, ne, Num(9)>>)
            /\ phase = "done" => lox.out = <<eq, ne, Num(9)>>

\* f == g has given false and f != g true, for two closures of one source
C23_Witness ==
    /\ src.tmpl = "equality" /\ src.a = 6 /\ src.b = 7
    /\ phase = "done"
    /\ lox.out = <<Bool(FALSE), Bool(TRUE), Num(9)>>
    /\ lox.fns[1].body = lox.fns[2].body

\* C24 (as claimed): for if, while, and, or: nil and false are falsy (t
\* stays 0); every string, closure, native function, class and instance,
\* like true and 1, is truthy (t becomes 1).
C24_Truthiness ==
    src.tmpl = "truth" =>
        LET t == Num(IF src.a \in {0, 1} THEN 0 ELSE 1)
        IN  /\ ~Crashed
            /\ IsPrefix(lox.out, <<t, Num(9)>>)
            /\ phase = "done" => lox.out = <<t, Num(9)>>

\* C24 (the code): LoxObject::truthy is false for everything that is not a
\* primitive: closures, native functions, classes and instances are falsy
\* like nil and false; true, 1 and every string are truthy.
C24_OnlyPrimitivesTruthy ==
    src.tmpl = "truth" =>
        LET t == Num(IF src.a \in {2, 3, 4, 5} THEN 1 ELSE 0)
        IN  /\ ~Crashed
            /\ IsPrefix(lox.out, <<t, Num(9)>>)
            /\ phase = "done" => lox.out = <<t, Num(9)>>

\* C25 (as claimed): !v is true exactly when v is falsy and false exactly
\* when v is truthy (with the truthiness the evaluator uses in if and
\* while: true, 1 and the strings are truthy).
C25_NotNegates ==
    src.tmpl = "not" =>
        LET b == Bool(src.a \notin {2, 3, 4, 5})
        IN  /\ ~Crashed
            /\ IsPrefix(lox.out, <<b, Num(9)>>)
            /\ phase = "done" => lox.out = <<b, Num(9)>>

\* C25 (the code): unary_op gives value.truthy() for `!`: !v is true
\* exactly when v is truthy.
C25_NotIsTruthy ==
    src.tmpl = "not" =>
        LET b == Bool(src.a \in {2, 3, 4, 5})
        IN  /\ ~Crashed
            /\ IsPrefix(lox.out, <<b, Num(9)>>)
            /\ phase = "done" => lox.out = <<b, Num(9)>>

\* What a static-environment program prints when s reads and writes the
\* variables its text names
StaticEnvOutput(what) ==
    CASE what = 0 -> <<Num(3), Num(5), Num(9)>>
      [] what = 1 -> <<Num(5), Num(5), Num(9)>>
      [] OTHER -> <<Num(7), Num(7), Num(9)>>

\* C26 (as claimed): after the resolver pass, every address resolved in
\* the body of a static method called through its class reaches the frame
\* of the scope in which the resolver found the name: no out-of-range
\* access (no panic), no slot of another declaration, and the parameter x
\* and the variable a outside the class are read and written as written.
C26_StaticAddresses ==
    src.tmpl = "staticenv" /\ resolved = "ok" =>
        /\ phase # "panicked"
        /\ lox.misread = {}
        /\ src.a # 3 =>
               /\ phase # "failed"
               /\ IsPrefix(lox.out, StaticEnvOutput(src.a))
               /\ phase = "done" => lox.out = StaticEnvOutput(src.a)

\* C26 (the code): a static method is not bound, so its call frame hangs
\* directly under the frame in which the class was declared, while the
\* resolver counted the scope of `this` in between: every address resolved
\* in the body to a name outside the method is one frame off.  The
\* parameter is read as written, and so is a global a; a local a outside
\* the class is looked for one frame too far up and the evaluator panics;
\* `this` panics for a class declared at top level and otherwise reads
\* slot 0 of the frame in which the class was declared (here a).
C26_StaticOneFrameOff ==
    src.tmpl = "staticenv" /\ resolved = "ok" =>
        /\ phase # "failed"
        /\ CASE src.a = 0 \/ (src.a \in {1, 2} /\ src.b = 0) ->
                    /\ phase # "panicked" /\ lox.misread = {}
                    /\ phase = "done" => lox.out = StaticEnvOutput(src.a)
             [] src.a = 3 /\ src.b = 1 ->
                    /\ phase # "panicked"
                    /\ phase = "done" =>
                           /\ lox.out = <<Num(5), Num(5), Num(9)>>
                           /\ lox.misread = {5}
             [] OTHER -> lox.out = <<>> /\ phase # "done"

\* C27 (as claimed): a closure made outside any class and stored in a
\* property of an instance reads, when called through the property, the
\* same captured variables as when called directly: f() and o.g() print
\* the same value, the one of the variable f names.
C27_PropertyClosure ==
    src.tmpl = "propfn" =>
        LET v == Num(5 + src.a)
        IN  /\ ~Crashed
            /\ lox.misread = {}
            /\ IsPrefix(lox.out, <<v, v, Num(9)>>)
            /\ phase = "done" => lox.out = <<v, v, Num(9)>>

\* C27 (the code): handle_class_instance_get binds every function it
\* finds, a property included, so o.g is f over one more frame, the one
\* holding `this`.  A captured local is then looked for one frame too
\* low: slot 0 gives the instance instead of c, slot 1 does not exist and
\* the evaluator panics.  Globals (no resolver pass, or a program at top
\* level) are read as written.
C27_PropertyClosureBound ==
    src.tmpl = "propfn" =>
        LET v == Num(5 + src.a)
        IN  /\ phase # "failed"
            /\ IF resolved = "ok" /\ src.b = 1
               THEN /\ phase = "done" =>
                           /\ src.a = 0
                           /\ lox.out = <<v, InstVal(1), Num(9)>>
                           /\ lox.misread = {4}
                    /\ phase = "panicked" => src.a = 1 /\ lox.out = <<v>>
               ELSE /\ phase # "panicked"
                    /\ lox.misread = {}
                    /\ phase = "done" => lox.out = <<v, v, Num(9)>>

\* The i-th argument of the call of f in an arity program, nil if missing
ArityArg(k, i) == IF i <= k THEN Num(i) ELSE Nil

\* The call frames of f: the frames whose first slot was declared by a
ArityFrames == {i \in 1..Len(lox.frames) :
                   lox.frames[i].owner # <<>> /\ lox.frames[i].owner[1] = 7}

\* C28: calling f(a, b) with 0 to MaxArgs arguments raises no error in the
\* call: all the arguments are evaluated (n counts them), the call frame
\* has a slot for a and one for b, in that order, holding the first two
\* arguments, nil where one is missing; the surplus is dropped.  (The body
\* reads a and b only after a resolver pass; without it the read of a is
\* a ReferenceError.)
C28_ArityUnchecked ==
    src.tmpl = "arity" =>
        /\ phase # "panicked"
        /\ \A i \in ArityFrames :
               /\ lox.frames[i].slots = Put(Put(EmptyMap, "a", 0), "b", 1)
               /\ lox.frames[i].values = <<ArityArg(src.a, 1), ArityArg(src.a, 2)>>
               /\ lox.globals["n"] = Num(src.a)
        /\ phase = "failed" => resolved # "ok" /\ result = ErrReference /\ ArityFrames # {}
        /\ resolved = "ok" =>
               /\ IsPrefix(lox.out, <<ArityArg(src.a, 1), ArityArg(src.a, 2),
                                      Num(src.a), Num(9)>>)
               /\ phase = "done" => Len(lox.out) = 4

\* f(t()) has printed 1, nil and the count 1 of evaluated arguments
C28_Witness ==
    /\ src.tmpl = "arity" /\ src.a = 1
    /\ resolved = "ok" /\ phase = "done"
    /\ lox.out = <<Num(1), Nil, Num(1), Num(9)>>
    /\ ArityFrames # {}

\* f called with one argument more than it has parameters
C28_WitnessSurplus ==
    /\ src.tmpl = "arity" /\ src.a = 3
    /\ resolved = "ok" /\ phase = "done"
    /\ lox.out = <<Num(1), Num(2), Num(3), Num(9)>>

\* C29 (as claimed): in a for loop the increment is evaluated after every
\* iteration that does not break or return, one ended by continue
\* included: the counting loop whose body continues runs n iterations (c
\* is n), ends with i = n, and the statements after it run.
C29_ForContinueIncrements ==
    src.tmpl = "forcontinue" =>
        /\ ~Crashed
        /\ IsPrefix(lox.out, <<Num(src.a), Num(src.a), Num(9)>>)
        /\ phase = "done" => lox.out = <<Num(src.a), Num(src.a), Num(9)>>

\* C29 (the code): the continue of the body is a Break (C19): it ends the
\* inner block [body, increment] before the increment and then the loop,
\* in the first iteration: i stays 0 and c is 1.  Without continue the
\* loop counts to n.
C29_ForContinueEndsLoop ==
    src.tmpl = "forcontinue" =>
        LET i == IF src.b = 0 THEN 0 ELSE src.a
            c == IF src.b = 0 /\ src.a > 0 THEN 1 ELSE src.a
        IN  /\ ~Crashed
            /\ IsPrefix(lox.out, <<Num(i), Num(c), Num(9)>>)
            /\ phase = "done" => lox.out = <<Num(i), Num(c), Num(9)>>

====
